---- MODULE Spec2Model ----
(***************************************************************************)
(* ProtoScope: the subscription decoder (internal/parser), the config      *)
(* generators, the test orchestrator (internal/tester runner) and the      *)
(* proxy lifecycle managers (subprocess ProxyManager, embedded             *)
(* ProxyManagerV2).                                                        *)
(*                                                                         *)
(* Spec        : one call of TestRunner.runTests over a list of protocols, *)
(*               with the onProgress and onResult callbacks supplied,      *)
(*               one goroutine per protocol, each driving its own          *)
(*               ProxyManager through testProtocol.                        *)
(* SpecFair    : one two-target run with every goroutine scheduled fairly. *)
(* SpecMgr     : one lifecycle manager (either kind) for one Protocol,     *)
(*               driven through arbitrary sequences of Start / Stop /      *)
(*               GetHTTPClient / GetXrayConfig / GetSingboxConfig calls.   *)
(* SpecMgrFair : SpecMgr with the readiness poll running to its end.       *)
(* SpecDecode  : DecodeSubscription on a fetched body, line by line.       *)
(* SpecParsers : parseProtocolLine and the base64 step on one input each.  *)
(* SpecAnalyze : models.AnalyzeError on one error.                         *)
(* SpecSynth   : the Xray and sing-box generators on one Protocol with     *)
(*               transport options.                                        *)
(***************************************************************************)
EXTENDS Integers, Sequences, FiniteSets, TLC

\* ---- bounds of the model ----
NumTargets == 2
MaxConcurrency == 2
MaxPolls == 2

\* ---- program constants ----
BasePort == 10808
PortRange == 1000

\* readings of time.Now().UnixNano() offered to the workers
ClockSamples == {0, 1, PortRange}

\* protocol types offered as inputs: one every dialect supports, one none does
ProtocolPool == {"vmess", "singbox"}

\* the four optional stages, in pipeline order
Stages == <<"Performance", "GeoAccess", "DNS", "Privacy">>

\* the enable flags offered as configurations: the default (all on), all off,
\* and two that switch neighbouring stages differently
FlagChoices == {[Performance |-> TRUE, GeoAccess |-> TRUE, DNS |-> TRUE, Privacy |-> TRUE],
                [Performance |-> FALSE, GeoAccess |-> FALSE, DNS |-> FALSE, Privacy |-> FALSE],
                [Performance |-> TRUE, GeoAccess |-> FALSE, DNS |-> TRUE, Privacy |-> FALSE],
                [Performance |-> FALSE, GeoAccess |-> TRUE, DNS |-> FALSE, Privacy |-> TRUE]}

VARIABLES
    protocols,    \* input slice of runTests (sequence of protocol types)
    concurrency,  \* tr.concurrency
    flags,        \* tr.config.TestConfig.Enable*Test
    cancelled,    \* the run-scoped ctx is done
    realIP,       \* tr.realIP
    mainpc,       \* position of the runTests goroutine
    spawned,      \* number of worker goroutines created so far
    wg,           \* sync.WaitGroup counter
    sem,          \* number of tokens in the sem channel
    pc,           \* position of each worker goroutine
    result,       \* each worker's local *TestResult
    stagesRun,    \* stages each worker has started, in order
    progress,     \* stages of the progress events each worker has emitted
    results,      \* the shared results slice
    retErr,       \* error returned by runTests
    mgr,          \* the lifecycle managers
    mpc,          \* position of each manager inside Start
    mret,         \* last value returned by a manager method
    polls,        \* iterations of waitForProxy so far
    disk,         \* temp config files present on disk
    content,      \* DecodeSubscription: the fetched body
    decoded,      \* DecodeSubscription: the text handed to parseProtocols
    lineNum,      \* parseProtocols: lines the scanner has delivered
    parsedList,   \* parseProtocols: the local slice `protocols`
    last,         \* the last line given to parseProtocolLine and its return
    subret,       \* the value DecodeSubscription returned
    ppc,          \* position inside DecodeSubscription
    target,       \* the *models.Protocol of the manager
    doc,          \* the last return of a config generator
    errIn,        \* the error handed to AnalyzeError
    detailed,     \* the *DetailedError AnalyzeError returned
    calls         \* the results onResult was invoked with, by index argument

runVars == <<protocols, concurrency, flags, realIP, mainpc, spawned, wg, sem,
             pc, result, stagesRun, progress, results, retErr>>
mgrVars == <<mgr, mpc, mret, polls, disk>>
parseVars == <<content, decoded, lineNum, parsedList, last, subret, ppc>>
synthVars == <<target, doc>>
\* variables a single step each writes
auxVars == <<errIn, detailed, calls>>
vars == <<protocols, concurrency, flags, cancelled, realIP, mainpc, spawned, wg,
          sem, pc, result, stagesRun, progress, results, retErr, mgr, mpc, mret, polls,
          disk, content, decoded, lineNum, parsedList, last, subret, ppc,
          target, doc, errIn, detailed, calls>>

Targets == 1..Len(protocols)
Slots == 1..(NumTargets + 1)

NoFile == <<>>
NilResult == [nil |-> TRUE]
NoMgr == [kind |-> "none"]
NoRet == [op |-> "none", err |-> "", client |-> FALSE]

\* ------------------------------------------------------------------------
\* texts: decimal strings and base64 texts
\* ------------------------------------------------------------------------
\* A port text is a sequence of one-character strings; a base64 text is
\* described by the characters it uses, its padding and the bytes it encodes.
DigitChars == <<"0", "1", "2", "3", "4", "5", "6", "7", "8", "9">>

IsDigit(c) == \E d \in DOMAIN DigitChars : DigitChars[d] = c
DigitValue(c) == (CHOOSE d \in DOMAIN DigitChars : DigitChars[d] = c) - 1
AllDigits(s) == \A n \in DOMAIN s : IsDigit(s[n])

RECURSIVE DecimalValue(_)
DecimalValue(s) ==
    IF s = <<>> THEN 0
    ELSE Len(DigitChars) * DecimalValue(SubSeq(s, 1, Len(s) - 1)) + DigitValue(s[Len(s)])

\* strconv.Atoi: an optional sign and at least one digit, base 10 (texts of
\* the model stay far below the int range)
Atoi(s) ==
    LET signed == Len(s) > 0 /\ s[1] \in {"+", "-"}
        digits == IF signed THEN Tail(s) ELSE s
    IN IF Len(digits) = 0 \/ ~AllDigits(digits)
       THEN [ok |-> FALSE, val |-> 0]
       ELSE [ok |-> TRUE,
             val |-> IF signed /\ s[1] = "-" THEN 0 - DecimalValue(digits)
                     ELSE DecimalValue(digits)]

\* the decimal text of an integer, as an encoder writes it
RECURSIVE Itoa(_)
Itoa(n) ==
    IF n < 0 THEN <<"-">> \o Itoa(0 - n)
    ELSE IF n < Len(DigitChars) THEN <<DigitChars[n + 1]>>
    ELSE Itoa(n \div Len(DigitChars)) \o <<DigitChars[(n % Len(DigitChars)) + 1]>>

\* characters of a base64 text: only letters and digits ("common"), also
\* '+' or '/' ("std"), also '-' or '_' ("url"), or some character of neither
\* alphabet ("bad")
Base64Alphabets == {"common", "std", "url", "bad"}

\* length of a base64 text: a multiple of four with no '=' needed ("none"),
\* completed by '=' ("padded"), the needed '=' left out ("stripped"), or one
\* character over a multiple of four ("trunc")
Base64Paddings == {"none", "padded", "stripped", "trunc"}

Base64Forms == [alpha : Base64Alphabets, pad : Base64Paddings]

Base64Text(form, data) == [alpha |-> form.alpha, pad |-> form.pad, data |-> data]

\* base64.StdEncoding / URLEncoding / RawStdEncoding .DecodeString accept
StdEncodingAccepts(t) == t.alpha \in {"common", "std"} /\ t.pad \in {"none", "padded"}
URLEncodingAccepts(t) == t.alpha \in {"common", "url"} /\ t.pad \in {"none", "padded"}
RawStdEncodingAccepts(t) == t.alpha \in {"common", "std"} /\ t.pad \in {"none", "stripped"}

NoData == [nil |-> TRUE]

\* variant: the unpadded decoder is tried first
decodeBase64RawFirst(t) ==
    IF RawStdEncodingAccepts(t) THEN [err |-> FALSE, via |-> "raw", out |-> t.data]
    ELSE IF StdEncodingAccepts(t) THEN [err |-> FALSE, via |-> "std", out |-> t.data]
    ELSE IF URLEncodingAccepts(t) THEN [err |-> FALSE, via |-> "url", out |-> t.data]
    ELSE [err |-> TRUE, via |-> "none", out |-> NoData]

\* Decoder.decodeBase64; via names the decoder whose output is returned
decodeBase64(t) ==
    IF StdEncodingAccepts(t) THEN [err |-> FALSE, via |-> "std", out |-> t.data]
    ELSE IF URLEncodingAccepts(t) THEN [err |-> FALSE, via |-> "url", out |-> t.data]
    ELSE IF RawStdEncodingAccepts(t) THEN [err |-> FALSE, via |-> "raw", out |-> t.data]
    ELSE [err |-> TRUE, via |-> "none", out |-> NoData]

\* ------------------------------------------------------------------------
\* the URI decoders
\* ------------------------------------------------------------------------
NoProtocol == [nil |-> TRUE]

\* a decoder returns an error; via names the base64 decoder that had accepted
\* the payload ("none" when there was none)
ParseError(msg, via) == [ok |-> FALSE, err |-> msg, protocol |-> NoProtocol, via |-> via]
ParseOk(p, via) == [ok |-> TRUE, err |-> "", protocol |-> p, via |-> via]

\* a JSON value of the vmess document: kind "number" and "other" carry the
\* raw token, "string" the characters between the quotes, "absent" nothing
JSONValue(kind, text) == [kind |-> kind, text |-> text]

\* variant: the port field is a plain Go string, a JSON number is refused
stringOrNumberStringOnly(v) ==
    IF v.kind \in {"string", "absent"} THEN [err |-> FALSE, str |-> v.text]
    ELSE [err |-> TRUE, str |-> <<>>]

\* stringOrNumber.UnmarshalJSON: a quoted value gives its characters, any
\* other value its raw token; an absent field leaves the empty string
stringOrNumber(v) == [err |-> FALSE, str |-> v.text]

\* json.Unmarshal into VMessConfig
UnmarshalVMess(json) ==
    IF ~json.syntax THEN [err |-> TRUE, Add |-> "", Port |-> <<>>]
    ELSE LET port == stringOrNumber(json.port) IN
         [err |-> port.err, Add |-> json.add, Port |-> port.str]

\* ParseVMess (line.rest is what follows the prefix)
ParseVMess(line) ==
    LET encoded == line.rest
        decoded0 == IF StdEncodingAccepts(encoded) THEN [err |-> FALSE, via |-> "std"]
                    ELSE IF URLEncodingAccepts(encoded) THEN [err |-> FALSE, via |-> "url"]
                    ELSE IF RawStdEncodingAccepts(encoded) THEN [err |-> FALSE, via |-> "raw"]
                    ELSE [err |-> TRUE, via |-> "none"]
    IN IF decoded0.err THEN ParseError("failed to decode vmess", "none")
       ELSE LET config == UnmarshalVMess(encoded.data) IN
            IF config.err THEN ParseError("failed to parse vmess config", decoded0.via)
            ELSE LET port == Atoi(config.Port) IN
                 IF ~port.ok THEN ParseError("invalid port", decoded0.via)
                 ELSE ParseOk([Type |-> "vmess", Server |-> config.Add,
                               Port |-> port.val, Raw |-> line], decoded0.via)

\* ParseShadowsocks: the decoded text is method:password@server:port
ParseShadowsocks(line) ==
    LET encoded == line.rest
        decoded0 == IF StdEncodingAccepts(encoded) THEN [err |-> FALSE, via |-> "std"]
                    ELSE IF URLEncodingAccepts(encoded) THEN [err |-> FALSE, via |-> "url"]
                    ELSE IF RawStdEncodingAccepts(encoded) THEN [err |-> FALSE, via |-> "raw"]
                    ELSE [err |-> TRUE, via |-> "none"]
        d == encoded.data
    IN IF decoded0.err THEN ParseError("failed to decode shadowsocks", "none")
       ELSE IF ~d.at THEN ParseError("unsupported shadowsocks format", decoded0.via)
       ELSE IF ~d.userColon \/ ~d.serverColon THEN ParseError("invalid shadowsocks format", decoded0.via)
       ELSE LET port == Atoi(d.port) IN
            IF ~port.ok THEN ParseError("invalid port", decoded0.via)
            ELSE ParseOk([Type |-> "shadowsocks", Server |-> d.server,
                          Port |-> port.val, Raw |-> line], decoded0.via)

\* url.Parse of scheme://user@host[:port]?query: a port that is not all
\* digits is refused; Port() is the text after the colon, empty when there
\* is none; Query().Get(key) is "" for a parameter that is not given
urlParse(a) ==
    IF a.colon /\ ~AllDigits(a.port)
    THEN [err |-> TRUE, Username |-> "", Hostname |-> "", Port |-> <<>>,
          Query |-> [sni |-> "", peer |-> ""]]
    ELSE [err |-> FALSE, Username |-> a.user, Hostname |-> a.host,
          Port |-> IF a.colon THEN a.port ELSE <<>>,
          Query |-> [sni |-> a.sni, peer |-> a.peer]]

\* the sni each authority-form decoder stores: vless takes sni, then peer;
\* trojan sni, then peer, then the host; hysteria2 and tuic sni, then the host
SNIOf(ptype, query, host) ==
    CASE ptype = "vless" -> IF query.sni # "" THEN query.sni ELSE query.peer
      [] ptype = "trojan" -> IF query.sni # "" THEN query.sni
                             ELSE IF query.peer # "" THEN query.peer
                             ELSE host
      [] OTHER -> IF query.sni # "" THEN query.sni ELSE host

\* the body the four authority-form decoders share line for line: url.Parse,
\* the credential, the host, the port with the decoder's default
ParseAuthority(line, ptype, defaultPort, raw) ==
    LET u == urlParse(line.rest) IN
    IF u.err THEN ParseError("failed to parse url", "none")
    ELSE IF u.Username = "" THEN ParseError("missing credential", "none")
    ELSE IF u.Hostname = "" THEN ParseError("missing host", "none")
    ELSE LET portStr == IF u.Port = <<>> THEN defaultPort ELSE u.Port
             port == Atoi(portStr)
         IN IF ~port.ok THEN ParseError("invalid port", "none")
            ELSE ParseOk([Type |-> ptype, Server |-> u.Hostname,
                          Port |-> port.val, SNI |-> SNIOf(ptype, u.Query, u.Hostname),
                          Raw |-> raw], "none")

ParseVLESS(line) == ParseAuthority(line, "vless", <<"4", "4", "3">>, line)
ParseTrojan(line) == ParseAuthority(line, "trojan", <<"4", "4", "3">>, line)

\* ParseHysteria2 rewrites hy2:// to hysteria2:// before parsing
ParseHysteria2(line) ==
    LET rawURL == IF line.prefix = "hy2://" THEN [line EXCEPT !.prefix = "hysteria2://"] ELSE line
    IN ParseAuthority(rawURL, "hysteria2", <<"4", "4", "3">>, rawURL)

\* variant: the default port of tuic is 80
ParseTUICDefault80(line) == ParseAuthority(line, "tuic", <<"8", "0">>, line)

ParseTUIC(line) == ParseAuthority(line, "tuic", <<"4", "4", "3">>, line)

\* Decoder.parseProtocolLine: dispatch on the prefix of the line
parseProtocolLine(line) ==
    CASE line.prefix = "vmess://" -> ParseVMess(line)
      [] line.prefix = "vless://" -> ParseVLESS(line)
      [] line.prefix = "trojan://" -> ParseTrojan(line)
      [] line.prefix = "ss://" -> ParseShadowsocks(line)
      [] line.prefix \in {"hysteria2://", "hy2://"} -> ParseHysteria2(line)
      [] line.prefix = "tuic://" -> ParseTUIC(line)
      [] OTHER -> ParseError("unknown protocol type", "none")

\* ------------------------------------------------------------------------
\* lines and bodies offered as inputs
\* ------------------------------------------------------------------------
\* a line of text: what it starts with, what follows, whether white space
\* surrounds it, whether it holds nothing but white space, its byte length
Line(prefix, rest, ws, size) ==
    [prefix |-> prefix, rest |-> rest, ws |-> ws, empty |-> FALSE, size |-> size]

NoRest == [nil |-> TRUE]
BlankLine(ws) == [prefix |-> "", rest |-> NoRest, ws |-> ws, empty |-> TRUE, size |-> IF ws THEN 2 ELSE 0]

\* strings.TrimSpace
TrimSpace(line) == [line EXCEPT !.ws = FALSE]

OrdinarySizes == {100}

PortValues == {-1, 0, 443, 8443, 65535, 65536}
GoodForm == [alpha |-> "common", pad |-> "padded"]

JSONPorts ==
    {JSONValue(k, Itoa(n)) : k \in {"number", "string"}, n \in PortValues}
    \cup {JSONValue("number", <<"1", ".", "5">>), JSONValue("string", <<"8", "0", "a">>),
          JSONValue("string", <<>>), JSONValue("string", <<" ", "8", "0">>),
          JSONValue("other", <<"t", "r", "u", "e">>), JSONValue("absent", <<>>)}

GoodVMessDoc == [syntax |-> TRUE, add |-> "v.example", port |-> JSONValue("number", Itoa(443))]

VMessDocs ==
    {[syntax |-> TRUE, add |-> "v.example", port |-> p] : p \in JSONPorts}
    \cup {[syntax |-> FALSE, add |-> "", port |-> JSONValue("absent", <<>>)]}

VMessLines ==
    {Line("vmess://", Base64Text(f, GoodVMessDoc), FALSE, s) : f \in Base64Forms, s \in OrdinarySizes}
    \cup {Line("vmess://", Base64Text(GoodForm, d), FALSE, s) : d \in VMessDocs, s \in OrdinarySizes}

GoodSSPayload ==
    [at |-> TRUE, userColon |-> TRUE, serverColon |-> TRUE, server |-> "s.example",
     port |-> Itoa(8443)]

SSPayloads ==
    {GoodSSPayload, [GoodSSPayload EXCEPT !.at = FALSE], [GoodSSPayload EXCEPT !.userColon = FALSE],
     [GoodSSPayload EXCEPT !.serverColon = FALSE], [GoodSSPayload EXCEPT !.port = <<"8", "0", "a">>]}

SSLines ==
    {Line("ss://", Base64Text(f, GoodSSPayload), FALSE, s) : f \in Base64Forms, s \in OrdinarySizes}
    \cup {Line("ss://", Base64Text(GoodForm, d), FALSE, s) : d \in SSPayloads, s \in OrdinarySizes}

Authority(user, host, colon, port) ==
    [user |-> user, host |-> host, colon |-> colon, port |-> port, sni |-> "", peer |-> ""]

\* authorities followed by a query with an sni and / or a peer parameter
QueryAuthorities ==
    {[Authority("cred", "h.example", FALSE, <<>>) EXCEPT !.sni = sni, !.peer = peer] :
        sni \in {"", "s.example"}, peer \in {"", "p.example"}}

Authorities ==
    {Authority("cred", "h.example", FALSE, <<>>), Authority("cred", "h.example", TRUE, <<>>),
     Authority("cred", "h.example", TRUE, <<"8", "0", "a">>),
     Authority("", "h.example", FALSE, <<>>), Authority("cred", "", FALSE, <<>>)}
    \cup {Authority("cred", "h.example", TRUE, Itoa(n)) : n \in PortValues \cap Nat}
    \cup QueryAuthorities

AuthorityPrefixes == {"vless://", "trojan://", "hysteria2://", "hy2://", "tuic://"}

URILines == {Line(px, a, FALSE, s) : px \in AuthorityPrefixes, a \in Authorities, s \in OrdinarySizes}

\* lines no decoder is registered for; the last has no scheme at all
OtherLines == {Line(px, NoRest, FALSE, s) : px \in {"wg://", "ssh://", "VMESS://", "Vless://", ""}, s \in OrdinarySizes}

\* inputs of parseProtocolLine
LinePool ==
    VMessLines \cup SSLines \cup URILines \cup OtherLines
    \cup {Line("trojan://", Authority("cred", "h.example", TRUE, Itoa(8443)), TRUE, 100)}

\* bufio.Scanner gives up on a line that does not fit its buffer
MaxScanTokenSize == 65536
MaxLines == 3

ScannerRefuses(line) == line.size >= MaxScanTokenSize

GoodVLESSLine(size) == Line("vless://", Authority("cred", "h.example", FALSE, <<>>), FALSE, size)

\* lines offered in subscription bodies
BodyLinePool ==
    {GoodVLESSLine(100), GoodVLESSLine(MaxScanTokenSize - 1),
     Line("vmess://", Base64Text(GoodForm, GoodVMessDoc), FALSE, 100),
     Line("vmess://", Base64Text([alpha |-> "bad", pad |-> "none"], GoodVMessDoc), FALSE, 100),
     Line("trojan://", Authority("cred", "h.example", TRUE, Itoa(8443)), TRUE, 100),
     Line("wg://", NoRest, FALSE, 100), Line("wg://", NoRest, FALSE, MaxScanTokenSize),
     Line("VMESS://", Base64Text(GoodForm, GoodVMessDoc), FALSE, 100),
     BlankLine(TRUE)}

\* a body that is plain text: it is valid base64 (of nothing) only when it
\* holds nothing but line breaks
PlainBody(lines) ==
    LET onlyBreaks == \A n \in DOMAIN lines : lines[n].empty /\ ~lines[n].ws IN
    [alpha |-> IF onlyBreaks THEN "common" ELSE "bad", pad |-> "none",
     data |-> <<>>, plain |-> lines]

\* a body that is the base64 text of the lines; read as plain text it is one
\* line without a scheme
EncodedBody(form, lines) ==
    [alpha |-> form.alpha, pad |-> form.pad, data |-> lines,
     plain |-> <<Line("", NoRest, FALSE, 100)>>]

BodiesOver(lineSeqs) ==
    {PlainBody(ls) : ls \in lineSeqs}
    \cup {EncodedBody(f, ls) : f \in Base64Forms, ls \in lineSeqs \ {<<>>}}

\* DecodeSubscription, lines 45-49: the base64 chain, and the content as it
\* is when the chain fails
DecodeBody(c) ==
    LET r == decodeBase64(c) IN
    IF r.err THEN [via |-> "verbatim", lines |-> c.plain]
    ELSE [via |-> r.via, lines |-> r.out]

\* what parseProtocols returns after the scan
parseProtocolsReturn(scanErr, ps) ==
    IF scanErr THEN [err |-> "bufio.Scanner: token too long", protocols |-> <<>>]
    ELSE IF Len(ps) = 0 THEN [err |-> "no valid protocols found", protocols |-> <<>>]
    ELSE [err |-> "", protocols |-> ps]

NoContent == [nil |-> TRUE]
NotDecoded == [via |-> "none", lines |-> <<>>]
NoLine == [nil |-> TRUE]
Pending == [ok |-> FALSE, err |-> "pending", protocol |-> NoProtocol, via |-> "none"]
NoCall == [line |-> NoLine, ret |-> Pending]
NoSub == [err |-> "none", protocols |-> <<>>]
NoTarget == [nil |-> TRUE]
NoError == [nil |-> TRUE, msg |-> <<>>]
NoDetails == [called |-> FALSE]
NoDoc == [dialect |-> "none", err |-> "", config |-> [nil |-> TRUE], caller |-> "none"]

\* the decoder is not in use
ParseIdle ==
    /\ content = NoContent
    /\ decoded = NotDecoded
    /\ lineNum = 0
    /\ parsedList = <<>>
    /\ last = NoCall
    /\ subret = NoSub
    /\ ppc = "idle"

\* no config generator is in use
SynthIdle ==
    /\ target = NoTarget
    /\ doc = NoDoc

\* AnalyzeError is not being exercised on its own
AnalyzeIdle ==
    /\ errIn = NoError
    /\ detailed = NoDetails

\* ------------------------------------------------------------------------
\* backend selection and config synthesis (case tables)
\* ------------------------------------------------------------------------
SelectBackend(ptype) == "sing-box"

XrayTypes == {"vmess", "vless", "trojan", "shadowsocks"}
SingboxTypes == {"hysteria2", "tuic", "vmess", "vless", "trojan", "shadowsocks"}
EmbeddedTypes == {"vmess", "vless", "trojan", "shadowsocks", "hysteria2", "tuic"}

\* a Protocol as the generators read it.  security, fp and fingerprint hold
\* "" for a key that is absent: the generators treat an absent and an empty
\* value of these alike.  The transport options path, host, serviceName and
\* headerType are keys of Extra only when the map has them.
Target(type, tls, sni, security, fp, fingerprint) ==
    [Type |-> type, TLS |-> tls, SNI |-> sni, Network |-> "tcp",
     Extra |-> [security |-> security, fp |-> fp, fingerprint |-> fingerprint]]

\* a Protocol of the given type without options
PlainTarget(type) == Target(type, type \in {"trojan", "hysteria2", "tuic"}, "", "", "", "")

\* vless targets as ParseVLESS builds them (TLS follows security), with and
\* without SNI and fingerprint options
VLESSTargets ==
    {Target("vless", security \in {"tls", "xtls", "reality"}, sni, security, fp, fingerprint) :
        security \in {"", "tls", "xtls", "reality"}, sni \in {"", "h.example"},
        fp \in {"", "firefox"}, fingerprint \in {"", "safari"}}

SynthTargets == VLESSTargets \cup {PlainTarget(type) : type \in EmbeddedTypes \cup {"singbox"}}

\* v, ok := p.Extra[key].(string)
ExtraString(p, key) ==
    IF key \in DOMAIN p.Extra THEN [ok |-> TRUE, s |-> p.Extra[key]]
    ELSE [ok |-> FALSE, s |-> ""]

\* the map f with the entries of g added
Merge(f, g) ==
    [x \in (DOMAIN f) \cup (DOMAIN g) |-> IF x \in DOMAIN g THEN g[x] ELSE f[x]]

\* m[key] = value inside `if cond { ... }`
SetIf(m, cond, entry) == IF cond THEN Merge(m, entry) ELSE m

TransportKeys == {"path", "host", "serviceName", "headerType"}
Networks == {"tcp", "ws", "grpc", "h2", "http", "quic", "kcp"}

\* the value a transport option has when it is present and not empty
OptionValue(key) ==
    CASE key = "path" -> "/ws"
      [] key = "host" -> "cdn.example"
      [] key = "serviceName" -> "svc"
      [] key = "headerType" -> "wechat-video"

\* the transport options a Protocol may carry: each key absent, empty or set
TransportExtras ==
    UNION {[K -> {"", "set"}] : K \in SUBSET TransportKeys}

\* Protocols of the types whose outbound has transport settings, over every
\* network and every combination of transport options
TransportTargets ==
    {[Type |-> type, TLS |-> type = "trojan", SNI |-> "", Network |-> network,
      Extra |-> Merge([security |-> "", fp |-> "", fingerprint |-> ""],
                      [k \in DOMAIN x |-> IF x[k] = "set" THEN OptionValue(k) ELSE ""])] :
        type \in {"vmess", "vless", "trojan"}, network \in Networks, x \in TransportExtras}

NoConfig == [nil |-> TRUE]

\* what a generator returns: the error ("" for nil) and the document
SynthError(dialect, msg) == [dialect |-> dialect, err |-> msg, config |-> NoConfig, caller |-> "none"]
SynthOk(dialect, inbound, outbounds) ==
    [dialect |-> dialect, err |-> "",
     config |-> [inbounds |-> <<inbound>>, outbounds |-> outbounds], caller |-> "none"]

\* Xray dialect: the switch on pm.protocol.Network of generateStreamSettings
\* adds the settings of the network to streamSettings; a settings map is
\* added only when it has an entry (quicSettings always has one)
AddNetworkSettings(streamSettings, p) ==
    LET path == ExtraString(p, "path")
        host == ExtraString(p, "host")
        serviceName == ExtraString(p, "serviceName")
        headerType == ExtraString(p, "headerType")
        hasPath == path.ok /\ path.s # ""
        hasHost == host.ok /\ host.s # ""
        hasService == serviceName.ok /\ serviceName.s # ""
        hasHeader == headerType.ok /\ headerType.s # ""
        header == [header |-> [type |-> headerType.s]]
    IN CASE p.Network = "ws" ->
              SetIf(streamSettings, hasPath \/ hasHost,
                    [wsSettings |-> IF hasPath /\ hasHost
                                    THEN [path |-> path.s, headers |-> [Host |-> host.s]]
                                    ELSE IF hasPath THEN [path |-> path.s]
                                    ELSE [headers |-> [Host |-> host.s]]])
         [] p.Network = "grpc" ->
              SetIf(streamSettings, hasService, [grpcSettings |-> [serviceName |-> serviceName.s]])
         [] p.Network \in {"h2", "http"} ->
              SetIf(streamSettings, hasPath \/ hasHost,
                    [httpSettings |-> IF hasPath /\ hasHost
                                      THEN [path |-> path.s, host |-> <<host.s>>]
                                      ELSE IF hasPath THEN [path |-> path.s]
                                      ELSE [host |-> <<host.s>>]])
         [] p.Network = "quic" ->
              Merge(streamSettings,
                    [quicSettings |-> SetIf([security |-> "none"], hasHeader, header)])
         [] p.Network = "kcp" ->
              SetIf(streamSettings, hasHeader, [kcpSettings |-> header])
         [] OTHER -> streamSettings

\* Xray dialect: generateStreamSettings
generateStreamSettings(p) ==
    LET tlsSettings == IF p.SNI # "" THEN [allowInsecure |-> FALSE, serverName |-> p.SNI]
                       ELSE [allowInsecure |-> FALSE]
        secured ==
           IF ~p.TLS THEN [network |-> p.Network]
           ELSE CASE p.Extra.security = "reality" ->
                    [network |-> p.Network, security |-> "reality", realitySettings |-> tlsSettings]
                  [] p.Extra.security = "xtls" ->
                    [network |-> p.Network, security |-> "xtls", xtlsSettings |-> tlsSettings]
                  [] OTHER ->
                    [network |-> p.Network, security |-> "tls", tlsSettings |-> tlsSettings]
    IN AddNetworkSettings(secured, p)

\* Xray dialect: the outbound of vmess, vless and trojan carries the stream
\* settings, the one of shadowsocks does not
generateXrayOutbound(p) ==
    IF p.Type = "shadowsocks" THEN [protocol |-> p.Type]
    ELSE [protocol |-> p.Type, streamSettings |-> generateStreamSettings(p)]

\* ProxyManager.generateXrayConfig
generateXrayConfig(p) ==
    IF p.Type \in XrayTypes
    THEN SynthOk("xray", [protocol |-> "socks"], <<generateXrayOutbound(p)>>)
    ELSE SynthError("xray", "unsupported protocol")

\* sing-box dialect: the transport block of the vmess, vless and trojan
\* outbounds: for a network other than "" and tcp a block with the network
\* as type; an option is copied when Extra has the key as a string
AddTransport(outbound, p) ==
    LET path == ExtraString(p, "path")
        host == ExtraString(p, "host")
        serviceName == ExtraString(p, "serviceName")
        transport == [type |-> p.Network]
    IN IF p.Network = "" \/ p.Network = "tcp" THEN outbound
       ELSE Merge(outbound,
               [transport |->
                  CASE p.Network = "ws" ->
                         SetIf(SetIf(transport, path.ok, [path |-> path.s]),
                               host.ok, [headers |-> [Host |-> host.s]])
                    [] p.Network = "grpc" ->
                         SetIf(transport, serviceName.ok, [service_name |-> serviceName.s])
                    [] OTHER -> transport])

\* sing-box dialect: generateSingboxVLESSOutbound
generateSingboxVLESSOutbound(p) ==
    LET outbound == AddTransport([type |-> "vless", tag |-> "proxy"], p)
        tls0 == IF p.SNI # "" THEN [enabled |-> TRUE, server_name |-> p.SNI]
                ELSE [enabled |-> TRUE]
        fingerprint == IF p.Extra.fp # "" THEN p.Extra.fp
                       ELSE IF p.Extra.fingerprint # "" THEN p.Extra.fingerprint
                       ELSE "chrome"
        tls == IF p.Extra.security = "reality"
               THEN tls0 @@ [reality |-> [enabled |-> TRUE],
                             utls |-> [enabled |-> TRUE, fingerprint |-> fingerprint]]
               ELSE tls0
    IN IF p.TLS THEN outbound @@ [tls |-> tls] ELSE outbound

\* sing-box dialect: the outbounds of the other types (hysteria2, tuic and
\* trojan always carry a tls block)
generateSingboxOutbound(p) ==
    LET outbound ==
           IF p.Type \in {"hysteria2", "tuic", "trojan"} \/ (p.Type = "vmess" /\ p.TLS)
           THEN [type |-> p.Type, tag |-> "proxy", tls |-> [enabled |-> TRUE]]
           ELSE [type |-> p.Type, tag |-> "proxy"]
    IN IF p.Type = "vless" THEN generateSingboxVLESSOutbound(p)
       ELSE IF p.Type \in {"vmess", "trojan"} THEN AddTransport(outbound, p)
       ELSE outbound

\* variant: a type without a case gets a document without outbound
generateSingboxConfigSilent(p) ==
    IF p.Type \in SingboxTypes
    THEN SynthOk("sing-box", [type |-> "socks", tag |-> "socks-in"], <<generateSingboxOutbound(p)>>)
    ELSE SynthOk("sing-box", [type |-> "socks", tag |-> "socks-in"], <<>>)

\* ProxyManager.generateSingboxConfig
generateSingboxConfig(p) ==
    IF p.Type \in SingboxTypes
    THEN SynthOk("sing-box", [type |-> "socks", tag |-> "socks-in"], <<generateSingboxOutbound(p)>>)
    ELSE SynthError("sing-box", "unsupported protocol for sing-box")

\* ProxyManagerV2: the outbound generators write type, tag, server and
\* credentials only
V2generateOutbound(p) == [type |-> p.Type, tag |-> "proxy-out"]

\* ProxyManagerV2.generateJSONConfig
generateJSONConfig(p) ==
    IF p.Type \in EmbeddedTypes
    THEN SynthOk("sing-box", [type |-> "socks", tag |-> "socks-in"], <<V2generateOutbound(p)>>)
    ELSE SynthError("sing-box", "unsupported protocol")

\* the switch on pm.backend in ProxyManager.Start
GenerateConfig(backend, p) ==
    CASE backend = "xray" -> generateXrayConfig(p)
      [] backend = "sing-box" -> generateSingboxConfig(p)
      [] OTHER -> SynthError(backend, "unsupported backend")

\* TRUE iff generateXrayConfig / generateSingboxConfig returns a config
GenerateConfigOk(backend, ptype) == GenerateConfig(backend, PlainTarget(ptype)).err = ""

generateJSONConfigOk(ptype) == generateJSONConfig(PlainTarget(ptype)).err = ""

\* the document d as returned to caller
CalledBy(d, caller) == [d EXCEPT !.caller = caller]

\* ------------------------------------------------------------------------
\* the managers
\* ------------------------------------------------------------------------
SocksPort(t) == BasePort + (t % PortRange)

NewProxyManager(ptype, port) ==
    [kind |-> "subprocess", protocol |-> ptype, backend |-> SelectBackend(ptype),
     socksPort |-> port, isRunning |-> FALSE, configFile |-> NoFile,
     proc |-> "nil", box |-> "nil", nfiles |-> 0,
     life |-> "Created", stopCalls |-> 0]

NewProxyManagerV2(ptype, port) ==
    [kind |-> "embedded", protocol |-> ptype, backend |-> "sing-box-embedded",
     socksPort |-> port, isRunning |-> FALSE, configFile |-> NoFile,
     proc |-> "nil", box |-> "nil", nfiles |-> 0,
     life |-> "Created", stopCalls |-> 0]

\* ProxyManager.Stop: kill and reap the process when one was launched,
\* remove the config file when one is recorded, clear isRunning, return nil.
\* proc: "nil" (proxyCmd == nil), "unstarted" (proxyCmd.Process == nil),
\* "live", "exited".
PMStop(m, d) ==
    [m |-> [m EXCEPT !.proc = IF m.proc \in {"live", "exited"} THEN "exited" ELSE @,
                      !.isRunning = FALSE,
                      !.stopCalls = IF @ < 2 THEN @ + 1 ELSE @],
     disk |-> IF m.configFile # NoFile THEN d \ {m.configFile} ELSE d,
     err |-> ""]

\* ProxyManagerV2.Stop: box.Close() when a box exists; its error is returned
\* before isRunning is cleared.  closeErr is the outcome of box.Close();
\* closed tells whether the box shut down although Close reported an error.
V2Stop(m, closeErr, closed) ==
    IF m.box # "nil" /\ closeErr
    THEN [m |-> [m EXCEPT !.box = IF closed THEN "closed" ELSE @,
                          !.stopCalls = IF @ < 2 THEN @ + 1 ELSE @],
          err |-> "close failed"]
    ELSE [m |-> [m EXCEPT !.box = IF @ # "nil" THEN "closed" ELSE @,
                          !.isRunning = FALSE,
                          !.stopCalls = IF @ < 2 THEN @ + 1 ELSE @],
          err |-> ""]

\* GetHTTPClient of both managers: refused unless isRunning; dialerOk is the
\* outcome of proxy.SOCKS5.
GetHTTPClient(m, dialerOk) ==
    IF ~m.isRunning THEN [op |-> "GetHTTPClient", err |-> "proxy is not running", client |-> FALSE]
    ELSE IF ~dialerOk THEN [op |-> "GetHTTPClient", err |-> "failed to create SOCKS5 dialer", client |-> FALSE]
    ELSE [op |-> "GetHTTPClient", err |-> "", client |-> TRUE]

\* ------------------------------------------------------------------------
\* ProxyManager.Start / ProxyManagerV2.Start, step by step
\* ------------------------------------------------------------------------
\* variant: Start goes straight to the readiness poll
StartEntryAtWait(m) == "wait"

StartEntry(m) == IF m.kind = "subprocess" THEN "checkBackend" ELSE "v2config"

\* the Protocol manager k was constructed with; doc follows the generators
\* of the manager built for target, the runner's targets carry no options
ProtocolOf(k) == IF target = NoTarget THEN PlainTarget(mgr[k].protocol) ELSE target

\* Start is entered: the manager is Starting
EnterStart(k) ==
    /\ mgr' = [mgr EXCEPT ![k].life = "Starting"]
    /\ mpc' = [mpc EXCEPT ![k] = StartEntry(mgr[k])]
    /\ polls' = [polls EXCEPT ![k] = 0]

\* Start returns err ("" for nil) leaving the manager as m
StartReturn(k, m, err) ==
    /\ mgr' = [mgr EXCEPT ![k] = [m EXCEPT !.life = IF err = "" THEN "Running" ELSE "Failed"]]
    /\ mpc' = [mpc EXCEPT ![k] = "idle"]
    /\ mret' = [mret EXCEPT ![k] = [op |-> "Start", err |-> err, client |-> FALSE]]

\* IsBackendAvailable, then the config generator of the backend
StartCheckBackend(k) ==
    /\ mpc[k] = "checkBackend"
    /\ \E available \in BOOLEAN :
         IF ~available
         THEN StartReturn(k, mgr[k], "binary not found") /\ UNCHANGED <<polls, disk, doc>>
         ELSE /\ doc' = IF target = NoTarget THEN doc
                        ELSE CalledBy(GenerateConfig(mgr[k].backend, ProtocolOf(k)), "Start")
              /\ IF ~GenerateConfigOk(mgr[k].backend, mgr[k].protocol)
                 THEN StartReturn(k, mgr[k], "failed to generate config") /\ UNCHANGED <<polls, disk>>
                 ELSE /\ mpc' = [mpc EXCEPT ![k] = "writeConfig"]
                      /\ UNCHANGED <<mgr, mret, polls, disk>>
    /\ UNCHANGED <<auxVars, parseVars, target, runVars, cancelled>>

\* writeConfigFile: on success a fresh temp file stays on disk and its name
\* is recorded; on failure nothing stays behind.
StartWriteConfig(k) ==
    /\ mpc[k] = "writeConfig"
    /\ \E written \in BOOLEAN :
         IF ~written
         THEN StartReturn(k, mgr[k], "failed to write config") /\ UNCHANGED <<polls, disk>>
         ELSE LET name == <<k, mgr[k].nfiles + 1>> IN
              /\ disk' = disk \cup {name}
              /\ mgr' = [mgr EXCEPT ![k].configFile = name, ![k].nfiles = @ + 1]
              /\ mpc' = [mpc EXCEPT ![k] = "lookPath"]
              /\ UNCHANGED <<mret, polls>>
    /\ UNCHANGED <<auxVars, parseVars, synthVars, runVars, cancelled>>

\* exec.LookPath of the backend binary
StartLookPath(k) ==
    /\ mpc[k] = "lookPath"
    /\ \E found \in BOOLEAN :
         IF ~found
         THEN StartReturn(k, mgr[k], "binary not found")
         ELSE mpc' = [mpc EXCEPT ![k] = "launch"] /\ UNCHANGED <<mgr, mret>>
    /\ UNCHANGED <<auxVars, parseVars, synthVars, runVars, cancelled, polls, disk>>

\* exec.CommandContext + proxyCmd.Start: a done context refuses the launch;
\* otherwise the launch succeeds or fails (fork/exec error, expired timeout)
StartLaunch(k) ==
    /\ mpc[k] = "launch"
    /\ \E launched \in BOOLEAN :
         IF cancelled \/ ~launched
         THEN StartReturn(k, [mgr[k] EXCEPT !.proc = "unstarted"], "failed to start")
         ELSE /\ mgr' = [mgr EXCEPT ![k].proc = "live"]
              /\ mpc' = [mpc EXCEPT ![k] = "wait"]
              /\ UNCHANGED mret
    /\ UNCHANGED <<auxVars, parseVars, synthVars, runVars, cancelled, polls, disk>>

\* ProxyManagerV2: generateJSONConfig, json.Unmarshal, box.New
StartV2Config(k) ==
    /\ mpc[k] = "v2config"
    /\ \E created \in BOOLEAN :
         IF ~generateJSONConfigOk(mgr[k].protocol)
         THEN StartReturn(k, mgr[k], "failed to generate config")
         ELSE IF ~created
         THEN StartReturn(k, mgr[k], "failed to create sing-box instance")
         ELSE /\ mgr' = [mgr EXCEPT ![k].box = "created"]
              /\ mpc' = [mpc EXCEPT ![k] = "v2start"]
              /\ UNCHANGED mret
    /\ doc' = IF target = NoTarget THEN doc
              ELSE CalledBy(generateJSONConfig(ProtocolOf(k)), "Start")
    /\ UNCHANGED <<auxVars, parseVars, target, runVars, cancelled, polls, disk>>

\* ProxyManagerV2: box.Start
StartV2Box(k) ==
    /\ mpc[k] = "v2start"
    /\ \E started \in BOOLEAN :
         IF ~started
         THEN StartReturn(k, mgr[k], "failed to start sing-box")
         ELSE /\ mgr' = [mgr EXCEPT ![k].box = "started"]
              /\ mpc' = [mpc EXCEPT ![k] = "wait"]
              /\ UNCHANGED mret
    /\ UNCHANGED <<auxVars, parseVars, synthVars, runVars, cancelled, polls, disk>>

\* the manager's own Stop, as Start calls it when waitForProxy fails
\* (its return value is dropped)
StopOnWaitFailure(m, d, closeErr, closed) ==
    IF m.kind = "subprocess" THEN PMStop(m, d)
    ELSE [m |-> V2Stop(m, closeErr, closed).m, disk |-> d, err |-> ""]

\* what Start returns when waitForProxy failed: its own timeout, or ctx.Err()
\* of a cancelled run or of an expired per-target timeout
WaitError(outcome, runCancelled) ==
    IF outcome = "deadline" THEN "proxy failed to start: timeout waiting for proxy to start"
    ELSE IF runCancelled THEN "proxy failed to start: context canceled"
    ELSE "proxy failed to start: context deadline exceeded"

WaitErrors == {WaitError(o, c) : o \in {"deadline", "ctxdone"}, c \in BOOLEAN}

\* the loop of waitForProxy is left by the deadline after n iterations
DeadlinePassed(n) == n >= MaxPolls

\* one iteration of waitForProxy and what Start does with its result:
\* deadline passed or ctx done -> Stop, return error; dial succeeds ->
\* isRunning = true, return nil; dial fails -> sleep and try again.
\* ctx is done when the run was cancelled or when the per-target timeout of
\* context.WithTimeout has expired; the latter may happen at any iteration.
StartWaitForProxy(k) ==
    /\ mpc[k] = "wait"
    /\ \E outcome \in {"deadline", "ctxdone", "ready", "retry"}, closeErr \in BOOLEAN, closed \in BOOLEAN :
         /\ outcome = "deadline" => polls[k] >= 1
         /\ DeadlinePassed(polls[k]) => outcome = "deadline"
         /\ (cancelled /\ ~DeadlinePassed(polls[k])) => outcome = "ctxdone"
         /\ (mgr[k].kind = "subprocess" \/ outcome \in {"ready", "retry"}) => (~closeErr /\ ~closed)
         /\ closed => closeErr
         /\ CASE outcome \in {"deadline", "ctxdone"} ->
                    LET s == StopOnWaitFailure(mgr[k], disk, closeErr, closed) IN
                    /\ StartReturn(k, s.m, WaitError(outcome, cancelled))
                    /\ disk' = s.disk
                    /\ polls' = [polls EXCEPT ![k] = 0]
              [] outcome = "ready" ->
                    /\ StartReturn(k, [mgr[k] EXCEPT !.isRunning = TRUE], "")
                    /\ polls' = [polls EXCEPT ![k] = 0]
                    /\ UNCHANGED disk
              [] outcome = "retry" ->
                    /\ polls' = [polls EXCEPT ![k] = @ + 1]
                    /\ UNCHANGED <<mgr, mpc, mret, disk>>
    /\ UNCHANGED <<auxVars, parseVars, synthVars, runVars, cancelled>>

\* ------------------------------------------------------------------------
\* TestRunner.runTests
\* ------------------------------------------------------------------------
\* the words of the message of each error a manager method returns (the
\* wrapped cause is the one the model's outcome stands for)
ErrorText(err) ==
    CASE err = "binary not found" ->
            <<"sing-box", "binary", "not", "found">>
      [] err = "failed to generate config" ->
            <<"failed", "to", "generate", "config", "unsupported", "protocol", "for", "sing-box">>
      [] err = "failed to write config" ->
            <<"failed", "to", "write", "config", "no", "space", "left", "on", "device">>
      [] err = "failed to start" ->
            <<"failed", "to", "start", "sing-box", "fork/exec", "permission", "denied">>
      [] err = "failed to create sing-box instance" ->
            <<"failed", "to", "create", "sing-box", "instance">>
      [] err = "failed to start sing-box" ->
            <<"failed", "to", "start", "sing-box">>
      [] err = "proxy failed to start: timeout waiting for proxy to start" ->
            <<"proxy", "failed", "to", "start", "timeout", "waiting", "for", "proxy", "to", "start">>
      [] err = "proxy failed to start: context canceled" ->
            <<"proxy", "failed", "to", "start", "context", "canceled">>
      [] err = "proxy failed to start: context deadline exceeded" ->
            <<"proxy", "failed", "to", "start", "context", "deadline", "exceeded">>
      [] err = "proxy is not running" ->
            <<"proxy", "is", "not", "running">>
      [] err = "failed to create SOCKS5 dialer" ->
            <<"failed", "to", "create", "SOCKS5", "dialer">>

\* strings.Contains, on words
Contains(msg, pat) ==
    \E n \in 0..(Len(msg) - Len(pat)) : SubSeq(msg, n + 1, n + Len(pat)) = pat

\* the values of ErrorType
ErrorTypes ==
    {"backend_not_found", "config_generation", "proxy_start_failed", "proxy_timeout",
     "connectivity", "dns", "authentication", "ssl_handshake", "network_unreachable",
     "port_conflict", "unknown"}

\* variant: the start-failed case is tried before the timeout case
ClassifyErrorStartFirst(msg) ==
    IF Contains(msg, <<"binary", "not", "found">>)
         \/ Contains(msg, <<"executable", "file", "not", "found">>) THEN "backend_not_found"
    ELSE IF Contains(msg, <<"failed", "to", "generate", "config">>) THEN "config_generation"
    ELSE IF Contains(msg, <<"address", "already", "in", "use">>)
         \/ Contains(msg, <<"bind">>) THEN "port_conflict"
    ELSE IF Contains(msg, <<"failed", "to", "start">>) THEN "proxy_start_failed"
    ELSE IF Contains(msg, <<"timeout">>)
         \/ Contains(msg, <<"deadline", "exceeded">>) THEN "proxy_timeout"
    ELSE IF Contains(msg, <<"connection", "refused">>) THEN "connectivity"
    ELSE IF Contains(msg, <<"no", "such", "host">>) \/ Contains(msg, <<"dns">>) THEN "dns"
    ELSE IF Contains(msg, <<"authentication", "failed">>)
         \/ Contains(msg, <<"invalid", "credentials">>) THEN "authentication"
    ELSE IF Contains(msg, <<"tls">>) \/ Contains(msg, <<"certificate">>)
         \/ Contains(msg, <<"handshake">>) THEN "ssl_handshake"
    ELSE IF Contains(msg, <<"network", "is", "unreachable">>) THEN "network_unreachable"
    ELSE "unknown"

\* the switch of AnalyzeError, first matching case
ClassifyError(msg) ==
    IF Contains(msg, <<"binary", "not", "found">>)
         \/ Contains(msg, <<"executable", "file", "not", "found">>) THEN "backend_not_found"
    ELSE IF Contains(msg, <<"failed", "to", "generate", "config">>) THEN "config_generation"
    ELSE IF Contains(msg, <<"address", "already", "in", "use">>)
         \/ Contains(msg, <<"bind">>) THEN "port_conflict"
    ELSE IF Contains(msg, <<"timeout">>)
         \/ Contains(msg, <<"deadline", "exceeded">>) THEN "proxy_timeout"
    ELSE IF Contains(msg, <<"connection", "refused">>) THEN "connectivity"
    ELSE IF Contains(msg, <<"no", "such", "host">>) \/ Contains(msg, <<"dns">>) THEN "dns"
    ELSE IF Contains(msg, <<"authentication", "failed">>)
         \/ Contains(msg, <<"invalid", "credentials">>) THEN "authentication"
    ELSE IF Contains(msg, <<"tls">>) \/ Contains(msg, <<"certificate">>)
         \/ Contains(msg, <<"handshake">>) THEN "ssl_handshake"
    ELSE IF Contains(msg, <<"network", "is", "unreachable">>) THEN "network_unreachable"
    ELSE IF Contains(msg, <<"failed", "to", "start">>) THEN "proxy_start_failed"
    ELSE "unknown"

NilDetails == [nil |-> TRUE]

\* DetailedError.GetTroubleshootingSuggestion: the suggestion already set,
\* else the text of the type's case, else the text of the default case
GetTroubleshootingSuggestion(e) ==
    IF e.Suggestion # "" THEN e.Suggestion
    ELSE CASE e.Type = "backend_not_found" -> "Install the required backend"
           [] e.Type = "config_generation" -> "Check if the protocol configuration is valid"
           [] e.Type = "proxy_start_failed" -> "Check if the port is already in use"
           [] e.Type = "proxy_timeout" -> "The proxy took too long to start"
           [] e.Type = "connectivity" -> "Cannot connect to the proxy server"
           [] e.Type = "dns" -> "DNS resolution failed"
           [] e.Type = "authentication" -> "Authentication failed"
           [] e.Type = "ssl_handshake" -> "SSL/TLS handshake failed"
           [] e.Type = "network_unreachable" -> "Network unreachable"
           [] e.Type = "port_conflict" -> "Port is already in use"
           [] OTHER -> "Check the error details and backend logs"

\* the body of AnalyzeError for a non-nil error whose message has the words
\* msg: the type of the first matching case, then the suggestion
DetailedErrorFor(msg) ==
    LET typed == [Type |-> ClassifyError(msg), Suggestion |-> ""] IN
    [typed EXCEPT !.Suggestion = GetTroubleshootingSuggestion(typed)]

\* variant: an error no case matches is left without a type
AnalyzeErrorNoDefault(err) ==
    IF err = "" THEN NilDetails
    ELSE [Type |-> IF ClassifyError(ErrorText(err)) = "unknown" THEN ""
                   ELSE ClassifyError(ErrorText(err)),
          Message |-> err]

\* models.AnalyzeError: nil for a nil error, else the type, the message and
\* the suggestion
AnalyzeError(err) ==
    IF err = "" THEN NilDetails
    ELSE DetailedErrorFor(ErrorText(err)) @@ [Message |-> err]

\* GetLastError of both managers
GetLastError(err) == AnalyzeError(err)

\* onProgress for the stage that is about to run, and "Complete" when the
\* pipeline has run to its end
OnProgress(events, stage, complete) ==
    IF complete THEN events \o <<stage, "Complete">> ELSE Append(events, stage)

\* variant: the result is created with Success = true
NewResultOptimistic(ptype) ==
    [Protocol |-> ptype, Success |-> TRUE, Error |-> "", ErrorDetails |-> NilDetails,
     Connectivity |-> "nil", Performance |-> FALSE, GeoAccess |-> FALSE,
     DNS |-> FALSE, Privacy |-> FALSE]

\* the TestResult literal at the head of testProtocol and of QuickTest
NewResult(ptype) ==
    [Protocol |-> ptype, Success |-> FALSE, Error |-> "", ErrorDetails |-> NilDetails,
     Connectivity |-> "nil", Performance |-> FALSE, GeoAccess |-> FALSE,
     DNS |-> FALSE, Privacy |-> FALSE]

\* checks.GetRealIP before the fan-out; failure leaves realIP empty
GetRealIP ==
    /\ mainpc = "realip"
    /\ \E ip \in {"", "203.0.113.7"} : realIP' = ip
    /\ mainpc' = "spawn"
    /\ UNCHANGED <<auxVars, parseVars, synthVars, protocols, concurrency, flags, cancelled, spawned, wg, sem,
                   pc, result, stagesRun, progress, results, retErr, mgrVars>>

\* one iteration of the range loop: wg.Add(1); go func(idx, proto)
Spawn ==
    /\ mainpc = "spawn"
    /\ spawned < Len(protocols)
    /\ wg' = wg + 1
    /\ spawned' = spawned + 1
    /\ pc' = [pc EXCEPT ![spawned + 1] = "acquire"]
    /\ UNCHANGED <<auxVars, parseVars, synthVars, protocols, concurrency, flags, cancelled, realIP, mainpc, sem,
                   result, stagesRun, progress, results, retErr, mgrVars>>

\* variant: the first failed target becomes the error of the run
ReturnedErrorFirstFailure(res) ==
    IF \E i \in Targets : res[i] # NilResult /\ ~res[i].Success THEN "target failed" ELSE "nil"

\* the value runTests returns as its error
ReturnedError(res) == "nil"

\* wg.Wait() and return results, nil
WaitReturn ==
    /\ mainpc = "spawn"
    /\ spawned = Len(protocols)
    /\ wg = 0
    /\ mainpc' = "returned"
    /\ retErr' = ReturnedError(results)
    /\ UNCHANGED <<auxVars, parseVars, synthVars, protocols, concurrency, flags, cancelled, realIP, spawned, wg,
                   sem, pc, result, stagesRun, progress, results, mgrVars>>

\* variant: a configured concurrency of 0 is taken as 1
SemHasRoomAtLeastOne == sem < (IF concurrency = 0 THEN 1 ELSE concurrency)

\* variant: the gate admits one worker more than the configured concurrency
SemHasRoomOffByOne == sem <= concurrency

\* a send on the buffered channel sem proceeds iff the buffer has room
SemHasRoom == sem < concurrency

\* sem <- struct{}{}
Acquire(i) ==
    /\ pc[i] = "acquire"
    /\ SemHasRoom
    /\ sem' = sem + 1
    /\ pc' = [pc EXCEPT ![i] = "begin"]
    /\ UNCHANGED <<auxVars, parseVars, synthVars, protocols, concurrency, flags, cancelled, realIP, mainpc,
                   spawned, wg, result, stagesRun, progress, results, retErr, mgrVars>>

\* testProtocol up to the call of proxyMgr.Start: the result record, the
\* port taken from the clock, the manager
BeginTest(i) ==
    /\ pc[i] = "begin"
    /\ \E t \in ClockSamples :
         LET m == NewProxyManager(protocols[i], SocksPort(t)) IN
         /\ mgr' = [mgr EXCEPT ![i] = [m EXCEPT !.life = "Starting"]]
         /\ mpc' = [mpc EXCEPT ![i] = StartEntry(m)]
    /\ result' = [result EXCEPT ![i] = NewResult(protocols[i])]
    /\ progress' = [progress EXCEPT ![i] = <<"Starting", "Starting">>]
    /\ pc' = [pc EXCEPT ![i] = "start"]
    /\ UNCHANGED <<auxVars, parseVars, synthVars, protocols, concurrency, flags, cancelled, realIP, mainpc,
                   spawned, wg, sem, stagesRun, results, retErr, mret, polls,
                   disk>>

\* Start returned an error: record it and return (no Stop is deferred yet)
StartFailed(i) ==
    /\ pc[i] = "start"
    /\ mpc[i] = "idle"
    /\ mret[i].op = "Start" /\ mret[i].err # ""
    /\ result' = [result EXCEPT ![i].Error = "Failed to start proxy",
                                ![i].ErrorDetails = GetLastError(mret[i].err)]
    /\ pc' = [pc EXCEPT ![i] = "callback"]
    /\ UNCHANGED <<auxVars, parseVars, synthVars, protocols, concurrency, flags, cancelled, realIP, mainpc,
                   spawned, wg, sem, stagesRun, progress, results, retErr, mgrVars>>

\* the first stage after `after` whose enable flag is set, "stop" (the
\* deferred Stop) when there is none
RECURSIVE NextStageFrom(_)
NextStageFrom(n) ==
    IF n > Len(Stages) THEN "stop"
    ELSE IF flags[Stages[n]] THEN Stages[n]
    ELSE NextStageFrom(n + 1)

StageIndex(stage) == CHOOSE n \in 1..Len(Stages) : Stages[n] = stage

\* Start returned nil: defer Stop, then GetHTTPClient
GetClient(i) ==
    /\ pc[i] = "start"
    /\ mpc[i] = "idle"
    /\ mret[i].op = "Start" /\ mret[i].err = ""
    /\ \E dialerOk \in BOOLEAN :
         LET r == GetHTTPClient(mgr[i], dialerOk) IN
         /\ mret' = [mret EXCEPT ![i] = r]
         /\ IF r.err # ""
            THEN /\ result' = [result EXCEPT ![i].Error = "Failed to create HTTP client",
                                             ![i].ErrorDetails = GetLastError(r.err)]
                 /\ pc' = [pc EXCEPT ![i] = "stop"]
            ELSE /\ pc' = [pc EXCEPT ![i] = "Connectivity"]
                 /\ UNCHANGED result
    /\ UNCHANGED <<auxVars, parseVars, synthVars, protocols, concurrency, flags, cancelled, realIP, mainpc,
                   spawned, wg, sem, stagesRun, progress, results, retErr, mgr, mpc, polls,
                   disk>>

\* variant: only an error stops the pipeline, Connected is not looked at
ConnectivityFailedErrOnly(err, connected) == err

\* the gate of the connectivity stage
ConnectivityFailed(err, connected) == err \/ ~connected

\* CheckHTTP never returns an error: it reports Connected true or false
CheckHTTPOutcomes == {[err |-> FALSE, connected |-> TRUE], [err |-> FALSE, connected |-> FALSE]}

\* the connectivity stage
Connectivity(i) ==
    /\ pc[i] = "Connectivity"
    /\ \E o \in CheckHTTPOutcomes :
         IF ConnectivityFailed(o.err, o.connected)
         THEN /\ result' = [result EXCEPT ![i].Error = "Connectivity test failed",
                                          ![i].Connectivity = IF o.connected THEN "connected" ELSE "notconnected"]
              /\ pc' = [pc EXCEPT ![i] = "stop"]
              /\ progress' = [progress EXCEPT ![i] = OnProgress(@, "Connectivity", FALSE)]
         ELSE /\ result' = [result EXCEPT ![i].Connectivity = IF o.connected THEN "connected" ELSE "notconnected",
                                          ![i].Success = TRUE]
              /\ pc' = [pc EXCEPT ![i] = NextStageFrom(1)]
              /\ progress' = [progress EXCEPT ![i] =
                                  OnProgress(@, "Connectivity", NextStageFrom(1) = "stop")]
    /\ stagesRun' = [stagesRun EXCEPT ![i] = Append(@, "Connectivity")]
    /\ UNCHANGED <<auxVars, parseVars, synthVars, protocols, concurrency, flags, cancelled, realIP, mainpc,
                   spawned, wg, sem, results, retErr, mgrVars>>

\* variant: a stage that returns an error ends the pipeline
RunStageAborts(i, stage) ==
    /\ pc[i] = stage
    /\ \E ok \in BOOLEAN :
         /\ result' = [result EXCEPT ![i][stage] = ok]
         /\ pc' = [pc EXCEPT ![i] = IF ok THEN NextStageFrom(StageIndex(stage) + 1)
                                         ELSE "stop"]
         /\ progress' = [progress EXCEPT ![i] =
                        OnProgress(@, stage, ok /\ NextStageFrom(StageIndex(stage) + 1) = "stop")]
    /\ stagesRun' = [stagesRun EXCEPT ![i] = Append(@, stage)]
    /\ UNCHANGED <<auxVars, parseVars, synthVars, protocols, concurrency, flags, cancelled, realIP, mainpc,
                   spawned, wg, sem, results, retErr, mgrVars>>

\* one of the optional stages: its result is stored when the check returns
\* no error, and the pipeline goes on either way
RunStage(i, stage) ==
    /\ pc[i] = stage
    /\ \E ok \in BOOLEAN :
         result' = [result EXCEPT ![i][stage] = ok]
    /\ stagesRun' = [stagesRun EXCEPT ![i] = Append(@, stage)]
    /\ progress' = [progress EXCEPT ![i] =
                        OnProgress(@, stage, NextStageFrom(StageIndex(stage) + 1) = "stop")]
    /\ pc' = [pc EXCEPT ![i] = NextStageFrom(StageIndex(stage) + 1)]
    /\ UNCHANGED <<auxVars, parseVars, synthVars, protocols, concurrency, flags, cancelled, realIP, mainpc,
                   spawned, wg, sem, results, retErr, mgrVars>>

Performance(i) == RunStage(i, "Performance")
GeoAccess(i) == RunStage(i, "GeoAccess")
DNS(i) == RunStage(i, "DNS")
Privacy(i) == RunStage(i, "Privacy")

\* the deferred proxyMgr.Stop() as testProtocol returns
DeferredStop(i) ==
    /\ pc[i] = "stop"
    /\ LET s == PMStop(mgr[i], disk) IN
         /\ mgr' = [mgr EXCEPT ![i] = [s.m EXCEPT !.life = "Stopped"]]
         /\ disk' = s.disk
         /\ mret' = [mret EXCEPT ![i] = [op |-> "Stop", err |-> s.err, client |-> FALSE]]
    /\ pc' = [pc EXCEPT ![i] = "callback"]
    /\ UNCHANGED <<auxVars, parseVars, synthVars, protocols, concurrency, flags, cancelled, realIP, mainpc,
                   spawned, wg, sem, result, stagesRun, progress, results, retErr, mpc,
                   polls>>

\* the arguments of onResult(idx, result)
OnResultArgs(idx) == [idx |-> idx, result |-> result[idx]]

\* testProtocol has returned: onResult(idx, result) is invoked (a run
\* without callback is this run with a callback that returns at once)
CallOnResult(i) ==
    /\ pc[i] = "callback"
    /\ LET args == OnResultArgs(i) IN
         calls' = [calls EXCEPT ![args.idx] = Append(@, args.result)]
    /\ pc' = [pc EXCEPT ![i] = "incallback"]
    /\ UNCHANGED <<errIn, detailed, parseVars, synthVars, protocols, concurrency, flags, cancelled,
                   realIP, mainpc, spawned, wg, sem, result, stagesRun, progress, results,
                   retErr, mgrVars>>

\* the callback returns
OnResultReturns(i) ==
    /\ pc[i] = "incallback"
    /\ pc' = [pc EXCEPT ![i] = "store"]
    /\ UNCHANGED <<auxVars, parseVars, synthVars, protocols, concurrency, flags, cancelled,
                   realIP, mainpc, spawned, wg, sem, result, stagesRun, progress, results,
                   retErr, mgrVars>>

\* variant: results are appended in completion order
ResultSlotAppend(idx) == Cardinality({j \in Slots : results[j] # NilResult}) + 1

\* the slot of the results slice a worker writes
ResultSlot(idx) == idx

\* mu.Lock(); results[idx] = result; mu.Unlock()
Store(i) ==
    /\ pc[i] = "store"
    /\ results' = [results EXCEPT ![ResultSlot(i)] = result[i]]
    /\ pc' = [pc EXCEPT ![i] = "release"]
    /\ UNCHANGED <<auxVars, parseVars, synthVars, protocols, concurrency, flags, cancelled, realIP, mainpc,
                   spawned, wg, sem, result, stagesRun, progress, retErr, mgrVars>>

\* variant: the deferred receive is missing, the permit stays in the channel
ReleaseKeepsPermit(i) ==
    /\ pc[i] = "release"
    /\ pc' = [pc EXCEPT ![i] = "wgdone"]
    /\ UNCHANGED <<auxVars, parseVars, synthVars, protocols, concurrency, flags, cancelled, realIP, mainpc,
                   spawned, wg, sem, result, stagesRun, progress, results, retErr, mgrVars>>

\* deferred <-sem
Release(i) ==
    /\ pc[i] = "release"
    /\ sem' = sem - 1
    /\ pc' = [pc EXCEPT ![i] = "wgdone"]
    /\ UNCHANGED <<auxVars, parseVars, synthVars, protocols, concurrency, flags, cancelled, realIP, mainpc,
                   spawned, wg, result, stagesRun, progress, results, retErr, mgrVars>>

\* deferred wg.Done()
WgDone(i) ==
    /\ pc[i] = "wgdone"
    /\ wg' = wg - 1
    /\ pc' = [pc EXCEPT ![i] = "finished"]
    /\ UNCHANGED <<auxVars, parseVars, synthVars, protocols, concurrency, flags, cancelled, realIP, mainpc,
                   spawned, sem, result, stagesRun, progress, results, retErr, mgrVars>>

\* the caller cancels the run-scoped context
Cancel ==
    /\ ~cancelled
    /\ cancelled' = TRUE
    /\ UNCHANGED <<auxVars, parseVars, synthVars, runVars, mgrVars>>

Init ==
    /\ protocols \in UNION {[1..n -> ProtocolPool] : n \in 0..NumTargets}
    /\ concurrency \in 0..MaxConcurrency
    /\ flags \in FlagChoices
    /\ cancelled = FALSE
    /\ realIP = ""
    /\ mainpc = "realip"
    /\ spawned = 0
    /\ wg = 0
    /\ sem = 0
    /\ pc = [i \in Slots |-> "unborn"]
    /\ result = [i \in Slots |-> NilResult]
    /\ stagesRun = [i \in Slots |-> <<>>]
    /\ progress = [i \in Slots |-> <<>>]
    /\ results = [i \in Slots |-> NilResult]
    /\ retErr = "none"
    /\ calls = [i \in Slots |-> <<>>]
    /\ mgr = [i \in Slots |-> NoMgr]
    /\ mpc = [i \in Slots |-> "idle"]
    /\ mret = [i \in Slots |-> NoRet]
    /\ polls = [i \in Slots |-> 0]
    /\ disk = {}
    /\ ParseIdle
    /\ SynthIdle
    /\ AnalyzeIdle

Next ==
    \/ GetRealIP
    \/ Spawn
    \/ WaitReturn
    \/ Cancel
    \/ \E i \in Slots : Acquire(i)
    \/ \E i \in Slots : BeginTest(i)
    \/ \E i \in Slots : StartCheckBackend(i)
    \/ \E i \in Slots : StartWriteConfig(i)
    \/ \E i \in Slots : StartLookPath(i)
    \/ \E i \in Slots : StartLaunch(i)
    \/ \E i \in Slots : StartWaitForProxy(i)
    \/ \E i \in Slots : StartFailed(i)
    \/ \E i \in Slots : GetClient(i)
    \/ \E i \in Slots : Connectivity(i)
    \/ \E i \in Slots : Performance(i)
    \/ \E i \in Slots : GeoAccess(i)
    \/ \E i \in Slots : DNS(i)
    \/ \E i \in Slots : Privacy(i)
    \/ \E i \in Slots : DeferredStop(i)
    \/ \E i \in Slots : CallOnResult(i)
    \/ \E i \in Slots : OnResultReturns(i)
    \/ \E i \in Slots : Store(i)
    \/ \E i \in Slots : Release(i)
    \/ \E i \in Slots : WgDone(i)

Spec == Init /\ [][Next]_vars

\* the steps of the runTests goroutine and of the worker goroutine i
MainStep == GetRealIP \/ Spawn \/ WaitReturn

WorkerStep(i) ==
    \/ Acquire(i) \/ BeginTest(i)
    \/ StartCheckBackend(i) \/ StartWriteConfig(i) \/ StartLookPath(i)
    \/ StartLaunch(i) \/ StartWaitForProxy(i)
    \/ StartFailed(i) \/ GetClient(i) \/ Connectivity(i)
    \/ Performance(i) \/ GeoAccess(i) \/ DNS(i) \/ Privacy(i)
    \/ DeferredStop(i) \/ CallOnResult(i) \/ OnResultReturns(i)
    \/ Store(i) \/ Release(i) \/ WgDone(i)

\* the run followed to its end: two targets, one every dialect supports and
\* one none does, every stage enabled, any concurrency
FairRun == <<"vmess", "singbox">>
AllStages == [Performance |-> TRUE, GeoAccess |-> TRUE, DNS |-> TRUE, Privacy |-> TRUE]

InitFair ==
    /\ Init
    /\ protocols = FairRun
    /\ flags = AllStages

\* the Go scheduler runs every goroutine that is able to take a step; the
\* caller need not cancel
SpecFair ==
    InitFair /\ [][Next]_vars /\ WF_vars(MainStep) /\ \A i \in Slots : WF_vars(WorkerStep(i))

\* ------------------------------------------------------------------------
\* one lifecycle manager under arbitrary calls of its methods
\* ------------------------------------------------------------------------
\* a caller invokes Start on a manager it has just constructed
CallStart(k) ==
    /\ mpc[k] = "idle"
    /\ mgr[k].kind # "none"
    /\ mgr[k].life = "Created"
    /\ EnterStart(k)
    /\ UNCHANGED <<auxVars, parseVars, synthVars, runVars, cancelled, mret, disk>>

\* a caller invokes Stop, in any state of the manager
CallStop(k) ==
    /\ mpc[k] = "idle"
    /\ mgr[k].kind # "none"
    /\ \E closeErr \in BOOLEAN, closed \in BOOLEAN :
         /\ closed => closeErr
         /\ mgr[k].kind = "subprocess" => ~closeErr
         /\ LET s == IF mgr[k].kind = "subprocess"
                     THEN PMStop(mgr[k], disk)
                     ELSE [m |-> V2Stop(mgr[k], closeErr, closed).m, disk |-> disk,
                           err |-> V2Stop(mgr[k], closeErr, closed).err]
            IN /\ mgr' = [mgr EXCEPT ![k] = [s.m EXCEPT !.life = "Stopped"]]
               /\ disk' = s.disk
               /\ mret' = [mret EXCEPT ![k] = [op |-> "Stop", err |-> s.err, client |-> FALSE]]
    /\ UNCHANGED <<auxVars, parseVars, synthVars, runVars, cancelled, mpc, polls>>

\* a caller invokes GetHTTPClient, in any state of the manager
CallGetHTTPClient(k) ==
    /\ mpc[k] = "idle"
    /\ mgr[k].kind # "none"
    /\ \E dialerOk \in BOOLEAN :
         mret' = [mret EXCEPT ![k] = GetHTTPClient(mgr[k], dialerOk)]
    /\ UNCHANGED <<auxVars, parseVars, synthVars, runVars, cancelled, mgr, mpc, polls, disk>>

\* a caller invokes the debug getter GetXrayConfig
CallGetXrayConfig(k) ==
    /\ mpc[k] = "idle"
    /\ mgr[k].kind = "subprocess"
    /\ doc' = CalledBy(generateXrayConfig(ProtocolOf(k)), "GetXrayConfig")
    /\ UNCHANGED <<auxVars, parseVars, target, runVars, mgrVars, cancelled>>

\* a caller invokes the debug getter GetSingboxConfig
CallGetSingboxConfig(k) ==
    /\ mpc[k] = "idle"
    /\ mgr[k].kind = "subprocess"
    /\ doc' = CalledBy(generateSingboxConfig(ProtocolOf(k)), "GetSingboxConfig")
    /\ UNCHANGED <<auxVars, parseVars, target, runVars, mgrVars, cancelled>>

InitMgr ==
    /\ protocols = <<>>
    /\ concurrency = 0
    /\ flags = [s \in {"Performance", "GeoAccess", "DNS", "Privacy"} |-> FALSE]
    /\ cancelled = FALSE
    /\ realIP = ""
    /\ mainpc = "realip"
    /\ spawned = 0
    /\ wg = 0
    /\ sem = 0
    /\ pc = [i \in Slots |-> "unborn"]
    /\ result = [i \in Slots |-> NilResult]
    /\ stagesRun = [i \in Slots |-> <<>>]
    /\ progress = [i \in Slots |-> <<>>]
    /\ results = [i \in Slots |-> NilResult]
    /\ retErr = "none"
    /\ calls = [i \in Slots |-> <<>>]
    /\ target \in SynthTargets
    /\ \E t \in ClockSamples, embedded \in BOOLEAN :
         mgr = [i \in Slots |->
                  IF i # 1 THEN NoMgr
                  ELSE IF embedded THEN NewProxyManagerV2(target.Type, SocksPort(t))
                  ELSE NewProxyManager(target.Type, SocksPort(t))]
    /\ mpc = [i \in Slots |-> "idle"]
    /\ mret = [i \in Slots |-> NoRet]
    /\ polls = [i \in Slots |-> 0]
    /\ disk = {}
    /\ ParseIdle
    /\ doc = NoDoc
    /\ AnalyzeIdle

NextMgr ==
    \/ Cancel
    \/ CallStart(1)
    \/ CallStop(1)
    \/ CallGetHTTPClient(1)
    \/ CallGetXrayConfig(1)
    \/ CallGetSingboxConfig(1)
    \/ StartCheckBackend(1)
    \/ StartWriteConfig(1)
    \/ StartLookPath(1)
    \/ StartLaunch(1)
    \/ StartV2Config(1)
    \/ StartV2Box(1)
    \/ StartWaitForProxy(1)

SpecMgr == InitMgr /\ [][NextMgr]_vars

\* Start runs on the caller's goroutine: once in waitForProxy it keeps
\* executing the loop until the loop returns
SpecMgrFair == SpecMgr /\ WF_vars(StartWaitForProxy(1))

\* ------------------------------------------------------------------------
\* the subscription decoder
\* ------------------------------------------------------------------------
\* no run and no manager exists
RunnerIdle ==
    /\ protocols = <<>>
    /\ concurrency = 0
    /\ flags = [s \in {"Performance", "GeoAccess", "DNS", "Privacy"} |-> FALSE]
    /\ cancelled = FALSE
    /\ realIP = ""
    /\ mainpc = "realip"
    /\ spawned = 0
    /\ wg = 0
    /\ sem = 0
    /\ pc = [i \in Slots |-> "unborn"]
    /\ result = [i \in Slots |-> NilResult]
    /\ stagesRun = [i \in Slots |-> <<>>]
    /\ progress = [i \in Slots |-> <<>>]
    /\ results = [i \in Slots |-> NilResult]
    /\ retErr = "none"
    /\ calls = [i \in Slots |-> <<>>]
    /\ mgr = [i \in Slots |-> NoMgr]
    /\ mpc = [i \in Slots |-> "idle"]
    /\ mret = [i \in Slots |-> NoRet]
    /\ polls = [i \in Slots |-> 0]
    /\ disk = {}

\* DecodeSubscription after the fetch: base64 chain, verbatim on failure
DecodeContent ==
    /\ ppc = "fetched"
    /\ decoded' = DecodeBody(content)
    /\ ppc' = "scan"
    /\ UNCHANGED <<content, lineNum, parsedList, last, subret, auxVars, synthVars, runVars,
                   mgrVars, cancelled>>

\* one iteration of the scanner loop of parseProtocols: trim, drop the empty
\* line, skip the line that does not parse, append the protocol
ScanLine ==
    /\ ppc = "scan"
    /\ lineNum < Len(decoded.lines)
    /\ ~ScannerRefuses(decoded.lines[lineNum + 1])
    /\ lineNum' = lineNum + 1
    /\ LET line == TrimSpace(decoded.lines[lineNum + 1]) IN
       IF line.empty
       THEN UNCHANGED <<parsedList, last>>
       ELSE LET r == parseProtocolLine(line) IN
            /\ last' = [line |-> line, ret |-> r]
            /\ parsedList' = IF r.ok THEN Append(parsedList, r.protocol) ELSE parsedList
    /\ UNCHANGED <<content, decoded, subret, ppc, auxVars, synthVars, runVars, mgrVars, cancelled>>

\* the scanner meets a line longer than its buffer: Scan returns false,
\* scanner.Err() is ErrTooLong and parseProtocols returns it
ScanTooLong ==
    /\ ppc = "scan"
    /\ lineNum < Len(decoded.lines)
    /\ ScannerRefuses(decoded.lines[lineNum + 1])
    /\ subret' = parseProtocolsReturn(TRUE, parsedList)
    /\ ppc' = "done"
    /\ UNCHANGED <<content, decoded, lineNum, parsedList, last, auxVars, synthVars, runVars,
                   mgrVars, cancelled>>

\* the scanner reaches the end of the text: parseProtocols and
\* DecodeSubscription return
ScanEnd ==
    /\ ppc = "scan"
    /\ lineNum = Len(decoded.lines)
    /\ subret' = parseProtocolsReturn(FALSE, parsedList)
    /\ ppc' = "done"
    /\ UNCHANGED <<content, decoded, lineNum, parsedList, last, auxVars, synthVars, runVars,
                   mgrVars, cancelled>>

InitDecode ==
    /\ RunnerIdle
    /\ SynthIdle
    /\ AnalyzeIdle
    /\ content \in BodiesOver(UNION {[1..n -> BodyLinePool] : n \in 0..MaxLines})
    /\ decoded = NotDecoded
    /\ lineNum = 0
    /\ parsedList = <<>>
    /\ last = NoCall
    /\ subret = NoSub
    /\ ppc = "fetched"

NextDecode ==
    \/ DecodeContent
    \/ ScanLine
    \/ ScanTooLong
    \/ ScanEnd

SpecDecode == InitDecode /\ [][NextDecode]_vars

\* ------------------------------------------------------------------------
\* the decoders applied to one input each
\* ------------------------------------------------------------------------
\* parseProtocolLine is applied to the trimmed line
CallParseProtocolLine ==
    /\ ppc = "call"
    /\ last.ret = Pending
    /\ last' = [line |-> TrimSpace(last.line), ret |-> parseProtocolLine(TrimSpace(last.line))]
    /\ UNCHANGED <<content, decoded, lineNum, parsedList, subret, ppc, auxVars, synthVars,
                   runVars, mgrVars, cancelled>>

\* the base64 step of DecodeSubscription is applied to the body
CallDecodeBody ==
    /\ ppc = "call"
    /\ decoded = NotDecoded
    /\ decoded' = DecodeBody(content)
    /\ UNCHANGED <<content, lineNum, parsedList, last, subret, ppc, auxVars, synthVars,
                   runVars, mgrVars, cancelled>>

InitParsers ==
    /\ RunnerIdle
    /\ SynthIdle
    /\ AnalyzeIdle
    /\ content \in BodiesOver({<<>>, <<GoodVLESSLine(100)>>})
    /\ decoded = NotDecoded
    /\ lineNum = 0
    /\ parsedList = <<>>
    /\ \E line \in LinePool : last = [line |-> line, ret |-> Pending]
    /\ subret = NoSub
    /\ ppc = "call"

NextParsers ==
    \/ CallParseProtocolLine
    \/ CallDecodeBody

SpecParsers == InitParsers /\ [][NextParsers]_vars

\* ------------------------------------------------------------------------
\* AnalyzeError on one error
\* ------------------------------------------------------------------------
MaxPhrases == 2

\* the substrings the cases of AnalyzeError look for, a text none of them
\* looks for, and the message of Start's readiness timeout
Phrases ==
    {<<"binary", "not", "found">>, <<"executable", "file", "not", "found">>,
     <<"failed", "to", "generate", "config">>, <<"address", "already", "in", "use">>,
     <<"bind">>, <<"timeout">>, <<"deadline", "exceeded">>, <<"connection", "refused">>,
     <<"no", "such", "host">>, <<"dns">>, <<"authentication", "failed">>,
     <<"invalid", "credentials">>, <<"tls">>, <<"certificate">>, <<"handshake">>,
     <<"network", "is", "unreachable">>, <<"failed", "to", "start">>, <<"EOF">>,
     ErrorText("proxy failed to start: timeout waiting for proxy to start")}

RECURSIVE Flatten(_)
Flatten(ps) == IF ps = <<>> THEN <<>> ELSE Head(ps) \o Flatten(Tail(ps))

\* error messages: up to MaxPhrases phrases one after the other
ErrorMessages == {Flatten(ps) : ps \in UNION {[1..n -> Phrases] : n \in 0..MaxPhrases}}

\* err.Error() of the errors offered to AnalyzeError, and the nil error
ErrorPool == {NoError} \cup {[nil |-> FALSE, msg |-> m] : m \in ErrorMessages}

\* detailed := models.AnalyzeError(err, backend, "")
CallAnalyzeError ==
    /\ ~detailed.called
    /\ detailed' = IF errIn.nil THEN [called |-> TRUE, nil |-> TRUE]
                   ELSE [called |-> TRUE, nil |-> FALSE] @@ DetailedErrorFor(errIn.msg)
    /\ UNCHANGED <<errIn, calls, parseVars, synthVars, runVars, mgrVars, cancelled>>

InitAnalyze ==
    /\ RunnerIdle
    /\ ParseIdle
    /\ SynthIdle
    /\ errIn \in ErrorPool
    /\ detailed = NoDetails

NextAnalyze == CallAnalyzeError

SpecAnalyze == InitAnalyze /\ [][NextAnalyze]_vars

\* ------------------------------------------------------------------------
\* the config generators on one Protocol with transport options
\* ------------------------------------------------------------------------
\* pm.generateXrayConfig() for the Protocol of the manager
SynthXrayConfig ==
    /\ target # NoTarget
    /\ doc' = CalledBy(generateXrayConfig(target), "GetXrayConfig")
    /\ UNCHANGED <<auxVars, parseVars, target, runVars, mgrVars, cancelled>>

\* pm.generateSingboxConfig() for the Protocol of the manager
SynthSingboxConfig ==
    /\ target # NoTarget
    /\ doc' = CalledBy(generateSingboxConfig(target), "GetSingboxConfig")
    /\ UNCHANGED <<auxVars, parseVars, target, runVars, mgrVars, cancelled>>

InitSynth ==
    /\ RunnerIdle
    /\ ParseIdle
    /\ AnalyzeIdle
    /\ target \in TransportTargets
    /\ doc = NoDoc

NextSynth == SynthXrayConfig \/ SynthSingboxConfig

SpecSynth == InitSynth /\ [][NextSynth]_vars

\* ------------------------------------------------------------------------
\* properties
\* ------------------------------------------------------------------------
\* workers between acquiring and releasing the semaphore
Holding == {i \in Targets : pc[i] \notin {"unborn", "acquire", "wgdone", "finished"}}

\* managers in the Starting or Running state
Live(k) == mgr[k].kind # "none" /\ mgr[k].life \in {"Starting", "Running"}
LiveSet == {i \in Slots : Live(i)}

\* workers whose testProtocol has returned
Returned(i) == pc[i] \in {"callback", "incallback", "store", "release", "wgdone", "finished"}

\* temp config files on disk written for manager k
FilesOf(k) == {f \in disk : f[1] = k}

\* C1: at any instant at most `concurrency` workers are between acquiring
\* and releasing the semaphore, and at most `concurrency` managers are
\* Starting or Running.
C1_BoundedConcurrency ==
    /\ sem <= concurrency
    /\ Cardinality(Holding) <= concurrency
    /\ Cardinality(LiveSet) <= concurrency

\* C1 witness: with concurrency 1 one manager is live while another worker
\* waits at the gate.
C1_Witness ==
    /\ concurrency = 1
    /\ \E i, j \in Targets : i # j /\ Live(i) /\ pc[j] = "acquire"

\* C2: every written slot of results holds the result of the protocol of
\* that index, whatever the completion order; when runTests has returned
\* there is one non-nil entry per protocol and nothing else.
C2_IndexStable ==
    /\ \A s \in Slots :
         results[s] # NilResult =>
            /\ s \in Targets
            /\ results[s].Protocol = protocols[s]
            /\ results[s] = result[s]
    /\ mainpc = "returned" => \A i \in Targets : results[i] # NilResult

\* C2 witness: over two different protocols the later-indexed target has
\* stored its result while the first one has not finished.
C2_Witness ==
    /\ Len(protocols) = 2
    /\ protocols[1] # protocols[2]
    /\ results[2] # NilResult
    /\ results[1] = NilResult

\* C3: a target whose connectivity stage failed has Success = false, none of
\* the four optional sub-results, and none of the four stages started.
C3_ConnectivityGate ==
    \A i \in Targets :
        (result[i] # NilResult /\ result[i].Connectivity = "notconnected") =>
            /\ ~result[i].Success
            /\ ~result[i].Performance /\ ~result[i].GeoAccess
            /\ ~result[i].DNS /\ ~result[i].Privacy
            /\ stagesRun[i] = <<"Connectivity">>
            /\ pc[i] \in {"stop", "callback", "incallback", "store", "release", "wgdone", "finished"}

\* C3 witness: with every stage enabled a target failed connectivity and its
\* result was stored.
C3_Witness ==
    \E i \in Targets :
        /\ \A n \in 1..Len(Stages) : flags[Stages[n]]
        /\ results[i] # NilResult
        /\ results[i].Connectivity = "notconnected"

\* the manager of worker i has been torn down: Stop was executed, the
\* backend is not running, no temp config file written for it is on disk
TornDown(i) ==
    /\ mgr[i].stopCalls >= 1
    /\ mgr[i].proc # "live"
    /\ FilesOf(i) = {}

\* C4: once a worker's pipeline has returned its manager has been torn down
\* (Stop executed), on every outcome.
C4_TeardownAlways ==
    \A i \in Targets : Returned(i) => TornDown(i)

\* C5: in a cancelled run every worker whose pipeline has returned has run
\* its teardown (backend terminated, temp config removed), and a returned
\* run has one result per target.
C5_CancelledTeardown ==
    /\ \A i \in Targets :
         (cancelled /\ Returned(i)) => (mgr[i].proc # "live" /\ FilesOf(i) = {})
    /\ (cancelled /\ mainpc = "returned") => \A i \in Targets : results[i] # NilResult

\* C6: no two managers that are live at the same time have the same SOCKS5
\* port.
C6_DistinctPorts ==
    \A i, j \in Targets :
        (i # j /\ Live(i) /\ Live(j)) => mgr[i].socksPort # mgr[j].socksPort

\* C7: when runTests has returned its error is nil and every target, failed
\* siblings or not, has run its own pipeline to the end and has its own
\* result, whose Success reflects its own connectivity stage alone.
C7_FailureIsolation ==
    mainpc = "returned" =>
        /\ retErr = "nil"
        /\ \A i \in Targets :
             /\ pc[i] = "finished"
             /\ results[i] = result[i]
             /\ results[i].Success <=> results[i].Connectivity = "connected"

\* C7 witness: a run has returned in which one target failed to start and a
\* sibling passed connectivity.
C7_Witness ==
    /\ mainpc = "returned"
    /\ \E i, j \in Targets :
         /\ results[i].Error = "Failed to start proxy"
         /\ results[j].Success

\* C8: whenever a Stop call has returned, it returned no error, the manager
\* is not running, the backend is terminated and the temp config file is
\* gone, for both kinds of manager.
C8_StopIdempotent ==
    \A k \in Slots :
        (mgr[k].kind # "none" /\ mpc[k] = "idle" /\ mret[k].op = "Stop") =>
            /\ mret[k].err = ""
            /\ ~mgr[k].isRunning
            /\ mgr[k].proc # "live"
            /\ mgr[k].box \notin {"created", "started"}
            /\ FilesOf(k) = {}

\* C9: GetHTTPClient hands out a client only in Running; in Created, after
\* a failed Start and after a Stop that has returned it returns the error
\* "proxy is not running" and no client, for both kinds of manager.
C9_ClientOnlyRunning ==
    \A k \in Slots :
        (mgr[k].kind # "none" /\ mret[k].op = "GetHTTPClient") =>
            /\ mret[k].client => mgr[k].life = "Running"
            /\ mgr[k].life \in {"Created", "Failed", "Stopped"} =>
                  (mret[k].err = "proxy is not running" /\ ~mret[k].client)

\* C10: at most one temp config file exists per target, and none remains
\* once the target's worker has returned.
C10_TempConfigRemoved ==
    \A i \in Targets :
        /\ Cardinality(FilesOf(i)) <= 1
        /\ Returned(i) => FilesOf(i) = {}

\* the protocols of the lines that parse, in the order of the lines
RECURSIVE ParsedOf(_)
ParsedOf(lines) ==
    IF lines = <<>> THEN <<>>
    ELSE LET line == TrimSpace(Head(lines))
             r == parseProtocolLine(line)
         IN (IF ~line.empty /\ r.ok THEN <<r.protocol>> ELSE <<>>) \o ParsedOf(Tail(lines))

\* C11: parseProtocols returns exactly the protocols of the lines that parse,
\* in input order; blank lines, lines of unknown scheme and lines whose
\* decoder fails are skipped without stopping the scan of later lines.
C11_ParsedInOrder ==
    /\ ppc = "scan" => parsedList = ParsedOf(SubSeq(decoded.lines, 1, lineNum))
    /\ ppc = "done" => subret.protocols = ParsedOf(decoded.lines)

\* C12: DecodeSubscription of a fetched body fails iff no line of the body
\* parses; when a line parses, the returned subscription contains it.
C12_FailsIffNoneParsed ==
    ppc = "done" =>
        /\ (subret.err # "") <=> (ParsedOf(decoded.lines) = <<>>)
        /\ \A n \in DOMAIN ParsedOf(decoded.lines) :
              \E m \in DOMAIN subret.protocols : subret.protocols[m] = ParsedOf(decoded.lines)[n]

\* the order of the fallback chain
ChainOrder == <<"std", "url", "raw">>

Accepts(v, t) ==
    CASE v = "std" -> StdEncodingAccepts(t)
      [] v = "url" -> URLEncodingAccepts(t)
      [] v = "raw" -> RawStdEncodingAccepts(t)

AllReject(t) == \A n \in DOMAIN ChainOrder : ~Accepts(ChainOrder[n], t)

\* via is the first decoder of the chain that accepts t, "none" if none does
FirstAccepting(via, t) ==
    IF AllReject(t) THEN via = "none"
    ELSE \E n \in DOMAIN ChainOrder :
            /\ via = ChainOrder[n]
            /\ Accepts(ChainOrder[n], t)
            /\ \A m \in 1..(n - 1) : ~Accepts(ChainOrder[m], t)

\* C13: each base64 chain (subscription body, vmess payload, shadowsocks
\* payload) returns the output of the first of standard, URL-safe,
\* raw-unpadded that accepts the input and fails only when all three reject;
\* a body all three reject is used verbatim.
C13_Base64Chain ==
    /\ decoded # NotDecoded =>
          /\ FirstAccepting(IF decoded.via = "verbatim" THEN "none" ELSE decoded.via, content)
          /\ decoded.lines = IF AllReject(content) THEN content.plain ELSE content.data
    /\ (last.ret # Pending /\ last.line.prefix \in {"vmess://", "ss://"}) =>
          /\ FirstAccepting(last.ret.via, last.line.rest)
          /\ (last.ret.err \in {"failed to decode vmess", "failed to decode shadowsocks"})
                <=> AllReject(last.line.rest)

\* C13 witness: a shadowsocks payload only the raw-unpadded decoder accepts
\* has been parsed, and a body only the URL-safe decoder accepts decoded.
C13_Witness ==
    /\ last.ret.ok /\ last.ret.via = "raw" /\ last.line.prefix = "ss://"
    /\ decoded.via = "url"

\* an optional sign followed by at least one digit
DecimalText(s) ==
    LET digits == IF Len(s) > 0 /\ s[1] \in {"+", "-"} THEN Tail(s) ELSE s
    IN Len(digits) > 0 /\ AllDigits(digits)

\* C14: a vmess document whose port is the JSON number n or the JSON string
\* "n" parses to port n; a port that is not a decimal integer is a parse
\* error.
C14_VMessPort ==
    (/\ last.ret # Pending
     /\ last.line.prefix = "vmess://"
     /\ ~AllReject(last.line.rest)
     /\ last.line.rest.data.syntax) =>
        LET port == last.line.rest.data.port IN
        /\ \A n \in PortValues :
              (port.kind \in {"number", "string"} /\ port.text = Itoa(n)) =>
                  (last.ret.ok /\ last.ret.protocol.Port = n)
        /\ ~(port.kind \in {"number", "string"} /\ DecimalText(port.text)) =>
              (~last.ret.ok /\ last.ret.err = "invalid port")

\* C14 witness: a document with the JSON number 8443 as port has parsed.
C14_Witness ==
    /\ last.ret.ok
    /\ last.line.prefix = "vmess://"
    /\ last.line.rest.data.port = JSONValue("number", Itoa(8443))
    /\ last.ret.protocol.Port = 8443

\* C15: a vless, trojan, hysteria2/hy2 or tuic URI with credential and host
\* parses to port 443 when its authority has no port and to the written port
\* when it has one.
C15_DefaultPort443 ==
    (/\ last.ret # Pending
     /\ last.line.prefix \in AuthorityPrefixes
     /\ last.line.rest.user # ""
     /\ last.line.rest.host # "") =>
        LET a == last.line.rest IN
        /\ (~a.colon \/ a.port = <<>>) => (last.ret.ok /\ last.ret.protocol.Port = 443)
        /\ \A n \in PortValues \cap Nat :
              (a.colon /\ a.port = Itoa(n)) => (last.ret.ok /\ last.ret.protocol.Port = n)

\* C15 witness: a tuic URI without a port has parsed.
C15_Witness ==
    /\ last.ret.ok
    /\ last.line.prefix = "tuic://"
    /\ ~last.line.rest.colon
    /\ last.ret.protocol.Port = 443

\* the reality block of an outbound, as either dialect places it
HasRealityBlock(o) ==
    \/ "streamSettings" \in DOMAIN o /\ "realitySettings" \in DOMAIN o.streamSettings
    \/ "tls" \in DOMAIN o /\ "reality" \in DOMAIN o.tls

\* the fingerprint of the uTLS option of an outbound, "" when it has none
FingerprintOf(o) ==
    IF "tls" \in DOMAIN o /\ "utls" \in DOMAIN o.tls /\ "fingerprint" \in DOMAIN o.tls.utls
    THEN o.tls.utls.fingerprint
    ELSE IF /\ "streamSettings" \in DOMAIN o
            /\ "realitySettings" \in DOMAIN o.streamSettings
            /\ "fingerprint" \in DOMAIN o.streamSettings.realitySettings
    THEN o.streamSettings.realitySettings.fingerprint
    ELSE ""

\* the fingerprints supplied with a target
SuppliedFingerprints(p) == {p.Extra.fp, p.Extra.fingerprint} \ {""}

\* C16: for a vless target with security = reality, the config of every
\* dialect has a reality block and a uTLS block with a non-empty
\* fingerprint: the supplied one, "chrome" when none is supplied.
C16_RealityHasFingerprint ==
    (/\ doc # NoDoc
     /\ doc.err = ""
     /\ target.Type = "vless"
     /\ target.Extra.security = "reality") =>
        LET o == doc.config.outbounds[1] IN
        /\ Len(doc.config.outbounds) = 1
        /\ HasRealityBlock(o)
        /\ FingerprintOf(o) # ""
        /\ IF SuppliedFingerprints(target) = {} THEN FingerprintOf(o) = "chrome"
           ELSE FingerprintOf(o) \in SuppliedFingerprints(target)

\* the (type, dialect) pairs without a case in the dialect's generator
UncoveredPairs ==
    {<<type, "xray">> : type \in (EmbeddedTypes \cup {"singbox"}) \ XrayTypes}
    \cup {<<type, "sing-box">> : type \in (EmbeddedTypes \cup {"singbox"}) \ SingboxTypes}

\* C17: for an uncovered (type, dialect) pair synthesis returns an error and
\* no document, and a Start that met the error returns "failed to generate
\* config" with no temp file written, no backend launched and the manager
\* not Running; for a covered pair the document has exactly one outbound.
C17_UnsupportedPairFails ==
    /\ doc # NoDoc =>
          IF <<target.Type, doc.dialect>> \in UncoveredPairs
          THEN doc.err # "" /\ doc.config = NoConfig
          ELSE doc.err = "" /\ Len(doc.config.outbounds) = 1
    /\ (doc.caller = "Start" /\ doc.err # "") =>
          /\ mpc[1] = "idle"
          /\ mret[1].op = "Start" => mret[1].err = "failed to generate config"
          /\ mgr[1].nfiles = 0 /\ FilesOf(1) = {}
          /\ mgr[1].proc = "nil" /\ mgr[1].box = "nil"
          /\ ~mgr[1].isRunning /\ mgr[1].life # "Running"

\* C17 witness: Start of a manager for a singbox target has returned the
\* config-generation error.
C17_Witness ==
    /\ target.Type = "singbox"
    /\ doc.caller = "Start" /\ doc.err # ""
    /\ mret[1].op = "Start" /\ mret[1].err = "failed to generate config"

\* the order of the steps inside Start
StartEdges ==
    {<<"idle", "checkBackend">>, <<"checkBackend", "writeConfig">>, <<"writeConfig", "lookPath">>,
     <<"lookPath", "launch">>, <<"launch", "wait">>,
     <<"idle", "v2config">>, <<"v2config", "v2start">>, <<"v2start", "wait">>}

\* the edges of the state machine; Stop may also be called on a manager
\* that is Created or Failed
LifeEdges ==
    {<<"Created", "Starting">>, <<"Starting", "Running">>, <<"Starting", "Failed">>,
     <<"Running", "Stopped">>}

\* one step of manager k keeps to the state machine
LifecycleStep(k) ==
    LET m == mgr[k]
        n == mgr'[k]
        returns == mpc[k] # "idle" /\ mpc'[k] = "idle"
    IN /\ m.life # n.life =>
             \/ <<m.life, n.life>> \in LifeEdges
             \/ mret'[k].op = "Stop" /\ m.life \in {"Created", "Failed"} /\ n.life = "Stopped"
       /\ (n.life = "Running" /\ m.life # "Running") => m.life = "Starting"
       /\ (mpc'[k] # mpc[k] /\ ~returns) => <<mpc[k], mpc'[k]>> \in StartEdges
       /\ (n.isRunning /\ ~m.isRunning) =>
             /\ mpc[k] = "wait" /\ returns
             /\ mret'[k].op = "Start" /\ mret'[k].err = ""
             /\ n.life = "Running"
             /\ n.kind = "subprocess" => (n.proc = "live" /\ n.configFile \in disk')
             /\ n.kind = "embedded" => n.box = "started"
       /\ (returns /\ mret'[k].err # "") => (~n.isRunning /\ n.life = "Failed")
       /\ (returns /\ mret'[k].err = "") => (n.isRunning /\ n.life = "Running")

WaitFailed(k) == mpc[k] = "idle" /\ mret[k].op = "Start" /\ mret[k].err \in WaitErrors

C20_StartFailureResult ==
    \A i \in Targets :
        (Returned(i) /\ mret[i].op = "Start" /\ mret[i].err # "") =>
            /\ ~result[i].Success
            /\ result[i].Error # ""
            /\ result[i].ErrorDetails # NilDetails
            /\ result[i].ErrorDetails.Type \in ErrorTypes
            /\ result[i].Connectivity = "nil"
            /\ \A n \in 1..Len(Stages) : ~result[i][Stages[n]]
            /\ stagesRun[i] = <<>>
            /\ \A n \in DOMAIN progress[i] : progress[i][n] = "Starting"

\* C20 witness: a worker has finished after a Start that could not write
\* its config file, and its stored result is classified "unknown".
C20_Witness ==
    \E i \in Targets :
        /\ pc[i] = "finished"
        /\ mret[i].op = "Start" /\ mret[i].err = "failed to write config"
        /\ results[i].ErrorDetails.Type = "unknown"

\* ------------------------------------------------------------------------
\* C21: after connectivity succeeds the stages run in the order Performance,
\* GeoAccess, DNS, Privacy, a stage runs iff its enable flag is set, a stage
\* that returns an error leaves only its own sub-result absent, leaves
\* Success true and does not keep a later enabled stage from running, and
\* the sub-result of a disabled stage is always absent
\* ------------------------------------------------------------------------
RECURSIVE EnabledFrom(_)
EnabledFrom(n) ==
    IF n > Len(Stages) THEN <<>>
    ELSE IF flags[Stages[n]] THEN <<Stages[n]>> \o EnabledFrom(n + 1)
    ELSE EnabledFrom(n + 1)

\* what a worker whose connectivity stage succeeded runs, in order
Pipeline == <<"Connectivity">> \o EnabledFrom(1)

IsPrefix(s, t) == Len(s) <= Len(t) /\ SubSeq(t, 1, Len(s)) = s

\* the worker has left the stages of testProtocol
PastStages(i) ==
    pc[i] \in {"stop", "callback", "incallback", "store", "release", "wgdone", "finished"}

StageStep(i) ==
    /\ (result'[i] # NilResult /\ result'[i].Success) =>
          /\ IsPrefix(stagesRun'[i], Pipeline)
          /\ PastStages(i)' => stagesRun'[i] = Pipeline
          /\ \A n \in 1..Len(Stages) : ~flags[Stages[n]] => ~result'[i][Stages[n]]
    /\ \A n \in 1..Len(Stages) :
          (pc[i] = Stages[n] /\ stagesRun'[i] # stagesRun[i]) =>
             /\ result[i].Success /\ result'[i].Success
             /\ stagesRun'[i] = Append(stagesRun[i], Stages[n])
             /\ \A f \in DOMAIN result[i] \ {Stages[n]} : result'[i][f] = result[i][f]

C21_StagePipeline == [][\A i \in Slots : StageStep(i)]_vars

\* a worker finished with every stage enabled, the first stage failed and a
\* later one stored its sub-result
C21_Witness ==
    \E i \in Targets :
       /\ PastStages(i)
       /\ result[i] # NilResult /\ result[i].Success
       /\ \A n \in 1..Len(Stages) : flags[Stages[n]]
       /\ ~result[i].Performance /\ result[i].DNS
       /\ stagesRun[i] = Pipeline

\* ------------------------------------------------------------------------
\* C22: AnalyzeError returns nil for a nil error; for any other error it
\* assigns exactly one category, that of the first case in the order
\* backend-not-found, config-generation, port-conflict, timeout,
\* connectivity, dns, authentication, tls-handshake, network-unreachable,
\* start-failed whose substring occurs in the message, and unknown when none
\* occurs; the suggestion is never empty; the readiness-timeout message of
\* Start is classified as timeout
\* ------------------------------------------------------------------------
CaseOrder ==
    <<[type |-> "backend_not_found",
       pats |-> {<<"binary", "not", "found">>, <<"executable", "file", "not", "found">>}],
      [type |-> "config_generation", pats |-> {<<"failed", "to", "generate", "config">>}],
      [type |-> "port_conflict", pats |-> {<<"address", "already", "in", "use">>, <<"bind">>}],
      [type |-> "proxy_timeout", pats |-> {<<"timeout">>, <<"deadline", "exceeded">>}],
      [type |-> "connectivity", pats |-> {<<"connection", "refused">>}],
      [type |-> "dns", pats |-> {<<"no", "such", "host">>, <<"dns">>}],
      [type |-> "authentication",
       pats |-> {<<"authentication", "failed">>, <<"invalid", "credentials">>}],
      [type |-> "ssl_handshake", pats |-> {<<"tls">>, <<"certificate">>, <<"handshake">>}],
      [type |-> "network_unreachable", pats |-> {<<"network", "is", "unreachable">>}],
      [type |-> "proxy_start_failed", pats |-> {<<"failed", "to", "start">>}]>>

Occurs(n, msg) == \E pat \in CaseOrder[n].pats : Contains(msg, pat)

FirstCase(msg) ==
    IF \A n \in 1..Len(CaseOrder) : ~Occurs(n, msg) THEN "unknown"
    ELSE CaseOrder[CHOOSE n \in 1..Len(CaseOrder) :
                      Occurs(n, msg) /\ \A k \in 1..(n - 1) : ~Occurs(k, msg)].type

C22_AnalyzeErrorTotal ==
    detailed.called =>
       /\ detailed.nil <=> errIn.nil
       /\ ~errIn.nil =>
            /\ detailed.Type \in ErrorTypes
            /\ detailed.Type = FirstCase(errIn.msg)
            /\ detailed.Suggestion # ""
            /\ errIn.msg = ErrorText("proxy failed to start: timeout waiting for proxy to start")
                  => detailed.Type = "proxy_timeout"

\* the readiness-timeout message of Start, which contains both "timeout" and
\* "failed to start", has been classified
C22_Witness ==
    /\ detailed.called
    /\ ~errIn.nil
    /\ errIn.msg = ErrorText("proxy failed to start: timeout waiting for proxy to start")
    /\ Contains(errIn.msg, <<"failed", "to", "start">>)
    /\ detailed.Type = "proxy_timeout"

\* ------------------------------------------------------------------------
\* C23: in both dialects a transport-specific field (websocket path and Host
\* header, gRPC service name, HTTP/2 path and host, QUIC/KCP header type) is
\* in the synthesized outbound only if the Protocol's network is that
\* transport and the corresponding Extra value is a non-empty string
\* ------------------------------------------------------------------------
\* the transport fields of each dialect: the block and the field that hold
\* it, the networks it belongs to and the Extra key it is taken from
TransportFields ==
    {[dialect |-> "xray", block |-> "wsSettings", field |-> "path", nets |-> {"ws"}, key |-> "path"],
     [dialect |-> "xray", block |-> "wsSettings", field |-> "headers", nets |-> {"ws"}, key |-> "host"],
     [dialect |-> "xray", block |-> "grpcSettings", field |-> "serviceName", nets |-> {"grpc"},
      key |-> "serviceName"],
     [dialect |-> "xray", block |-> "httpSettings", field |-> "path", nets |-> {"h2", "http"},
      key |-> "path"],
     [dialect |-> "xray", block |-> "httpSettings", field |-> "host", nets |-> {"h2", "http"},
      key |-> "host"],
     [dialect |-> "xray", block |-> "quicSettings", field |-> "header", nets |-> {"quic"},
      key |-> "headerType"],
     [dialect |-> "xray", block |-> "kcpSettings", field |-> "header", nets |-> {"kcp"},
      key |-> "headerType"],
     [dialect |-> "sing-box", block |-> "transport", field |-> "path", nets |-> {"ws"}, key |-> "path"],
     [dialect |-> "sing-box", block |-> "transport", field |-> "headers", nets |-> {"ws"},
      key |-> "host"],
     [dialect |-> "sing-box", block |-> "transport", field |-> "service_name", nets |-> {"grpc"},
      key |-> "serviceName"]}

\* the map of the outbound that holds the transport blocks of the dialect
TransportHolder(d) ==
    LET o == d.config.outbounds[1] IN
    IF d.dialect = "xray" THEN o.streamSettings ELSE o

\* the document d carries the transport field e
Emits(d, e) ==
    /\ d.err = "" /\ d.caller # "none"
    /\ d.dialect = e.dialect
    /\ e.block \in DOMAIN TransportHolder(d)
    /\ e.field \in DOMAIN TransportHolder(d)[e.block]

C23_TransportOnlyIfSet ==
    \A e \in TransportFields :
       Emits(doc, e) =>
          /\ target.Network \in e.nets
          /\ ExtraString(target, e.key).ok
          /\ ExtraString(target, e.key).s # ""

\* ------------------------------------------------------------------------
\* C24: for vless, trojan and tuic URIs the Protocol's SNI is the sni
\* parameter if non-empty, otherwise the peer parameter if non-empty,
\* otherwise the host for trojan only; for vless and tuic it is empty when
\* neither is given
\* ------------------------------------------------------------------------
C24_SNIFallback ==
    (last.ret.ok /\ last.line.prefix \in {"vless://", "trojan://", "tuic://"}) =>
       LET a == last.line.rest
           sni == last.ret.protocol.SNI
       IN IF a.sni # "" THEN sni = a.sni
          ELSE IF a.peer # "" THEN sni = a.peer
          ELSE IF last.line.prefix = "trojan://" THEN sni = a.host
          ELSE sni = ""

\* ------------------------------------------------------------------------
\* C25: every Protocol a decoder returns without error has a port in
\* 1..65535; a port of 0, a negative port or one above 65535 is rejected
\* ------------------------------------------------------------------------
C25_PortInRange ==
    last.ret.ok => last.ret.protocol.Port \in 1..65535

\* ------------------------------------------------------------------------
\* C26: for every decoder and every URI it parses successfully, the raw
\* field of the Protocol equals the input URI character for character; a
\* hy2:// input keeps its hy2:// form
\* ------------------------------------------------------------------------
C26_RawIsInput ==
    last.ret.ok => last.ret.protocol.Raw = last.line

\* ------------------------------------------------------------------------
\* C27: with concurrency >= 1, under fair scheduling, every worker waiting at
\* the gate is eventually admitted, every acquired permit is released
\* exactly once (the tokens in sem are those of the workers between acquire
\* and release), and runTests eventually returns with the semaphore empty
\* and all workers finished
\* ------------------------------------------------------------------------
RunComplete ==
    /\ mainpc = "returned"
    /\ sem = 0
    /\ \A i \in Targets : pc[i] = "finished"

C27_GateLiveness ==
    /\ [](sem = Cardinality(Holding))
    /\ \A i \in Slots : (concurrency >= 1 /\ pc[i] = "acquire") ~> (pc[i] \notin {"unborn", "acquire"})
    /\ (concurrency >= 1) ~> RunComplete

\* the run has returned after one worker waited at the gate while the other
\* held the only permit
C27_Witness ==
    /\ concurrency = 1
    /\ Len(protocols) = 2
    /\ RunComplete
    /\ \A i \in Targets : results[i] # NilResult

\* ------------------------------------------------------------------------
\* C28: with concurrency = 0 and at least one target the semaphore is a
\* channel of capacity 0 without receiver: no worker is ever admitted, no
\* lifecycle manager is ever created, and runTests never returns
\* ------------------------------------------------------------------------
C28_ZeroConcurrencyBlocks ==
    (concurrency = 0 /\ Len(protocols) >= 1) =>
       /\ sem = 0
       /\ \A i \in Slots : pc[i] \in {"unborn", "acquire"}
       /\ \A i \in Slots : mgr[i] = NoMgr
       /\ mainpc # "returned"

\* every worker has been spawned and is blocked in its send, runTests is
\* in wg.Wait()
C28_Witness ==
    /\ concurrency = 0
    /\ Len(protocols) = NumTargets
    /\ spawned = Len(protocols)
    /\ wg = Len(protocols)
    /\ \A i \in Targets : pc[i] = "acquire"
    /\ ~ENABLED (MainStep \/ \E i \in Slots : WorkerStep(i))

\* ------------------------------------------------------------------------
\* C29: onResult is invoked exactly once per target, with the target's index
\* and the very TestResult that ends up in results[index]; the call happens
\* after the target's lifecycle manager has been torn down and while the
\* worker still holds its permit, with the target's slot of results not yet
\* written
\* ------------------------------------------------------------------------
C29_OnResultOncePerTarget ==
    \A i \in Targets :
       /\ Len(calls[i]) <= 1
       /\ pc[i] \in {"incallback", "store", "release", "wgdone", "finished"} => Len(calls[i]) = 1
       /\ results[i] # NilResult => calls[i] = <<results[i]>>
       /\ pc[i] = "incallback" =>
            /\ TornDown(i)
            /\ i \in Holding
            /\ results[i] = NilResult

\* ------------------------------------------------------------------------
\* C30: every TestResult testProtocol or QuickTest returns was created with
\* Success = false; Success is true iff the connectivity stage reported
\* Connected; Success = true implies Connectivity is present and Error is
\* empty; Success = false implies Error is non-empty and Performance,
\* GeoAccess, DNS and Privacy are all absent.  (QuickTest is testProtocol
\* with every optional stage switched off.)
\* ------------------------------------------------------------------------
C30_ResultShape ==
    \A i \in Targets :
       /\ (result[i] # NilResult /\ stagesRun[i] = <<>>) => ~result[i].Success
       /\ Returned(i) =>
            LET r == result[i] IN
            /\ r.Success <=> r.Connectivity = "connected"
            /\ r.Success => (r.Connectivity # "nil" /\ r.Error = "")
            /\ ~r.Success =>
                 /\ r.Error # ""
                 /\ \A n \in 1..Len(Stages) : ~r[Stages[n]]

\* one returned result is a success with a stored sub-result, another one a
\* failure of the connectivity stage
C30_Witness ==
    \E i, j \in Targets :
       /\ Returned(i) /\ Returned(j)
       /\ result[i].Success /\ result[i].Privacy
       /\ ~result[j].Success /\ result[j].Connectivity = "notconnected"

====
